---- MODULE Spec2Model ----
(***************************************************************************)
(* squeel: translation of a SQL SELECT statement into a MongoDB query      *)
(* plan.  Statement.Build parses the raw SQL, walks the AST in pre-order   *)
(* (sqlparser.Walk), dispatches every node to its translator, and then     *)
(* finalises the operation kind.  The model keeps the plan (Query) as the  *)
(* state and has one action per case of the walker's type switch.          *)
(*                                                                         *)
(* AST nodes are records tagged by k, the name of the sqlparser type.      *)
(* bson.D and bson.M documents are sequences of [Key, Value] entries.      *)
(***************************************************************************)
EXTENDS Integers, Sequences, FiniteSets, TLC

VARIABLES
    input,   \* Statement.raw, given as what sqlparser.Parse makes of the text
    stmt,    \* Statement.stmt: the parsed AST root (NilNode before parsing)
    q,       \* the *Query the translators mutate
    err,     \* the error Build returns
    todo,    \* the nodes sqlparser.Walk has still to visit, in pre-order
    pc       \* position inside Build: "parse", "walk", "finalize", "done"

vars == <<input, stmt, q, err, todo, pc>>

-----------------------------------------------------------------------------
(* Bounds of the explored input space *)

\* largest row count of a LIMIT clause: LIMIT 1 .. LIMIT MaxRowcount
MaxRowcount == 2

-----------------------------------------------------------------------------
(* Values *)

NilNode == [k |-> "nil"]
NoErr == "nil"

\* a Go string holding a literal's text, a Go string holding an identifier,
\* an int, a float64 (kept as its text) and the untyped nil
StrV(chars) == [t |-> "string", s |-> chars]
NameV(id) == [t |-> "string", id |-> id]
IntV(n) == [t |-> "int", n |-> n]
FloatV(chars) == [t |-> "float", f |-> chars]
NilV == [t |-> "nil"]
E(key, value) == [Key |-> key, Value |-> value]
\* bson.M{op: arg}
M1(op, arg) == [t |-> "M", d |-> <<E(op, arg)>>]
\* bson.M{op1: arg1, op2: arg2}
M2(op1, arg1, op2, arg2) == [t |-> "M", d |-> <<E(op1, arg1), E(op2, arg2)>>]

\* unicode.IsUpper(rune(name[0])) over the collection names of the inputs
IsUpper0(name) == name \in {"User", "Orders", "Profiles"}

-----------------------------------------------------------------------------
(* query.go *)

NewQuery ==
    [ Comment       |-> "data request",
      Operation     |-> "",
      Collection    |-> "",
      Filter        |-> <<>>,
      Projection    |-> <<>>,
      ProjectionNil |-> FALSE,
      Sort          |-> <<>>,
      Limit         |-> <<>>,
      Offset        |-> <<>>,
      Pipeline      |-> <<>>,
      Panic         |-> FALSE ]

\* Panic is not a field of Query: it is TRUE once a translator has panicked
\* (a failed type assertion, a nil dereference, an index out of range); the
\* panic unwinds through Build, which then returns nothing.
Panic(q0) == [q0 EXCEPT !.Panic = TRUE]

-----------------------------------------------------------------------------
(* Strings.  A SQL literal's text (SQLVal.Val) is a sequence of one-character
   strings, so that length, counting, replacing and hex decoding are computed
   as the code computes them.  Identifiers stay TLA+ strings. *)

Digits == <<"0", "1", "2", "3", "4", "5", "6", "7", "8", "9">>
HexLower == <<"a", "b", "c", "d", "e", "f">>
HexUpper == <<"A", "B", "C", "D", "E", "F">>

IsDigit(c) == \E i \in 1..10 : Digits[i] = c
DigitVal(c) == (CHOOSE i \in 1..10 : Digits[i] = c) - 1

IsHex(c) ==
    \/ IsDigit(c)
    \/ \E i \in 1..6 : HexLower[i] = c \/ HexUpper[i] = c

HexDigitVal(c) ==
    IF IsDigit(c) THEN DigitVal(c)
    ELSE 9 + (CHOOSE i \in 1..6 : HexLower[i] = c \/ HexUpper[i] = c)

\* strings.Count(s, c) for a one-character c
Count(s, c) == Cardinality({i \in 1..Len(s) : s[i] = c})

\* s with every character of the set drop removed (strings.NewReplacer(x, ""))
RECURSIVE Strip(_, _)
Strip(s, drop) ==
    IF s = <<>> THEN <<>>
    ELSE IF Head(s) \in drop THEN Strip(Tail(s), drop)
    ELSE <<Head(s)>> \o Strip(Tail(s), drop)

\* strings.ReplaceAll(s, c, with) for a one-character c
RECURSIVE ReplaceAll(_, _, _)
ReplaceAll(s, c, with) ==
    IF s = <<>> THEN <<>>
    ELSE (IF Head(s) = c THEN with ELSE <<Head(s)>>) \o ReplaceAll(Tail(s), c, with)

\* s[from:to] of Go, 0-based and half-open
Slice(s, from, to) == SubSeq(s, from + 1, to)

\* An int or int64 is kept as its canonical decimal text (no leading zeros),
\* so that the 64-bit range is exact.  2^63 - 1:
MaxInt64 == <<"9", "2", "2", "3", "3", "7", "2", "0", "3", "6", "8", "5", "4",
              "7", "7", "5", "8", "0", "7">>

RECURSIVE TrimZeros(_)
TrimZeros(s) == IF Len(s) > 1 /\ Head(s) = "0" THEN TrimZeros(Tail(s)) ELSE s

\* a <= b for two digit strings of the same length
RECURSIVE DigitsLeq(_, _)
DigitsLeq(a, b) ==
    IF a = <<>> THEN TRUE
    ELSE IF DigitVal(Head(a)) < DigitVal(Head(b)) THEN TRUE
    ELSE IF DigitVal(Head(a)) > DigitVal(Head(b)) THEN FALSE
    ELSE DigitsLeq(Tail(a), Tail(b))

FitsInt64(d) == Len(d) < Len(MaxInt64) \/ (Len(d) = Len(MaxInt64) /\ DigitsLeq(d, MaxInt64))

\* strconv.Atoi / strconv.ParseInt(s, 10, 64) of an unsigned literal: ok is
\* FALSE on a syntax error (value 0) or when the value does not fit (value
\* clamped to the maximum)
Atoi(s) ==
    IF s = <<>> \/ \E i \in 1..Len(s) : ~IsDigit(s[i]) THEN [n |-> <<"0">>, ok |-> FALSE]
    ELSE IF FitsInt64(TrimZeros(s)) THEN [n |-> TrimZeros(s), ok |-> TRUE]
    ELSE [n |-> MaxInt64, ok |-> FALSE]

-----------------------------------------------------------------------------
(* binval.go *)

\* hex.DecodeString: the bytes, or a failure on an odd length or a non-hex
\* character
RECURSIVE HexDecode(_)
HexDecode(s) ==
    IF s = <<>> THEN [bytes |-> <<>>, ok |-> TRUE]
    ELSE IF Len(s) = 1 \/ ~IsHex(s[1]) \/ ~IsHex(s[2]) THEN [bytes |-> <<>>, ok |-> FALSE]
    ELSE LET rest == HexDecode(Tail(Tail(s)))
         IN  IF rest.ok
             THEN [bytes |-> <<16 * HexDigitVal(s[1]) + HexDigitVal(s[2])>> \o rest.bytes,
                   ok |-> TRUE]
             ELSE rest

\* A base64 text is the sequence of its characters' 6-bit values, with 64
\* for the padding character '='.
\* b64.StdEncoding.Encode
RECURSIVE Base64Encode(_)
Base64Encode(bytes) ==
    CASE Len(bytes) = 0 -> <<>>
      [] Len(bytes) = 1 -> <<bytes[1] \div 4, (bytes[1] % 4) * 16, 64, 64>>
      [] Len(bytes) = 2 ->
            <<bytes[1] \div 4, (bytes[1] % 4) * 16 + bytes[2] \div 16, (bytes[2] % 16) * 4, 64>>
      [] OTHER ->
            <<bytes[1] \div 4, (bytes[1] % 4) * 16 + bytes[2] \div 16,
              (bytes[2] % 16) * 4 + bytes[3] \div 64, bytes[3] % 64>>
                \o Base64Encode(SubSeq(bytes, 4, Len(bytes)))

\* b64.StdEncoding.DecodeString: the bytes, or a failure on a text that is
\* not made of whole, correctly padded groups of four
RECURSIVE Base64Decode(_)
Base64Decode(text) ==
    IF text = <<>> THEN [bytes |-> <<>>, ok |-> TRUE]
    ELSE IF Len(text) < 4 \/ text[1] = 64 \/ text[2] = 64 \/ (text[3] = 64 /\ text[4] # 64)
    THEN [bytes |-> <<>>, ok |-> FALSE]
    ELSE LET b1 == text[1] * 4 + text[2] \div 16
             b2 == (text[2] % 16) * 16 + text[3] \div 4
             b3 == (text[3] % 4) * 64 + text[4]
             rest == Base64Decode(SubSeq(text, 5, Len(text)))
         IN  IF text[3] = 64
             THEN [bytes |-> <<b1>>, ok |-> Len(text) = 4]
             ELSE IF text[4] = 64
             THEN [bytes |-> <<b1, b2>>, ok |-> Len(text) = 4]
             ELSE [bytes |-> <<b1, b2, b3>> \o rest.bytes, ok |-> rest.ok]

\* the base64 text of the decoded bytes; a decoding error yields the empty text
HexToBase64(in) ==
    LET rawBytes == HexDecode(in) IN IF rawBytes.ok THEN Base64Encode(rawBytes.bytes) ELSE <<>>

\* a base64 text holds no space, so the ReplaceAll of " " by "+" changes nothing
makeLegacyBinVal(value) ==
    LET out == Base64Decode(value)
    IN  [binval |-> [t |-> "binary", Subtype |-> 3, Data |-> out.bytes],
         err |-> IF out.ok THEN NoErr ELSE "base64.CorruptInputError"]

\* the conversion without the exchange of the first eight bytes
CSUUIDInTextOrder(uuid) ==
    LET returned(out) == [binval |-> out.binval, err |-> out.err, panic |-> FALSE]
        convert(cleanUUID) ==
            IF Len(cleanUUID) < 16
            THEN [binval |-> NilV, err |-> NoErr, panic |-> TRUE]
            ELSE returned(makeLegacyBinVal(HexToBase64(cleanUUID)))
    IN  convert(Strip(uuid, {"{", "}", "-"}))

\* panic is TRUE when a slice expression is out of range
CSUUID(uuid) ==
    LET reordered(cleanUUID) ==
            Slice(cleanUUID, 6, 8) \o Slice(cleanUUID, 4, 6) \o
            Slice(cleanUUID, 2, 4) \o Slice(cleanUUID, 0, 2) \o
            Slice(cleanUUID, 10, 12) \o Slice(cleanUUID, 8, 10) \o
            Slice(cleanUUID, 14, 16) \o Slice(cleanUUID, 12, 14) \o
            Slice(cleanUUID, 16, Len(cleanUUID))
        returned(out) == [binval |-> out.binval, err |-> out.err, panic |-> FALSE]
        convert(cleanUUID) ==
            IF Len(cleanUUID) < 16      \* cleanUUID[14:16] is out of range
            THEN [binval |-> NilV, err |-> NoErr, panic |-> TRUE]
            ELSE returned(makeLegacyBinVal(HexToBase64(reordered(cleanUUID))))
    IN  convert(Strip(uuid, {"{", "}", "-"}))

\* strconv.ParseInt(string(value.Val), 10, 64): the pointer is returned also
\* when parsing fails
makeint64Pointer(value) ==
    LET pointer(tmp) == [ptr |-> <<tmp.n>>, err |-> IF tmp.ok THEN NoErr ELSE "strconv.ParseInt"]
    IN  pointer(Atoi(value.Val))

-----------------------------------------------------------------------------
(* AST nodes (github.com/xwb1989/sqlparser).  An absent child is NilNode. *)

ColName(qualifier, name) == [k |-> "ColName", Qualifier |-> qualifier, Name |-> name]
SQLVal(type, val) == [k |-> "SQLVal", Type |-> type, Val |-> val]
ComparisonExpr(left, operator, right) ==
    [k |-> "ComparisonExpr", Left |-> left, Operator |-> operator, Right |-> right]
AndExpr(left, right) == [k |-> "AndExpr", Left |-> left, Right |-> right]
OrExpr(left, right) == [k |-> "OrExpr", Left |-> left, Right |-> right]
ParenExpr(expr) == [k |-> "ParenExpr", Expr |-> expr]
RangeCond(left, operator, from, to) ==
    [k |-> "RangeCond", Left |-> left, Operator |-> operator, From |-> from, To |-> to]
IsExpr(operator, expr) == [k |-> "IsExpr", Operator |-> operator, Expr |-> expr]
ValTuple(vals) == [k |-> "ValTuple", Vals |-> vals]
FuncExpr(name, distinct, exprs) ==
    [k |-> "FuncExpr", Name |-> name, Distinct |-> distinct, Exprs |-> exprs]
CaseExpr(expr, whens, else) ==
    [k |-> "CaseExpr", Expr |-> expr, Whens |-> whens, Else |-> else]
When(cond, val) == [k |-> "When", Cond |-> cond, Val |-> val]
Subquery(select) == [k |-> "Subquery", Select |-> select]
StarExpr(tableName) == [k |-> "StarExpr", TableName |-> tableName]
AliasedExpr(expr, as) == [k |-> "AliasedExpr", Expr |-> expr, As |-> as]
TableName(name) == [k |-> "TableName", Name |-> name]
AliasedTableExpr(expr, as) == [k |-> "AliasedTableExpr", Expr |-> expr, As |-> as]
JoinTableExpr(leftExpr, join, rightExpr, on) ==
    [k |-> "JoinTableExpr", LeftExpr |-> leftExpr, Join |-> join,
     RightExpr |-> rightExpr, On |-> on]
Order(expr, direction) == [k |-> "Order", Expr |-> expr, Direction |-> direction]
Limit(offset, rowcount) == [k |-> "Limit", Offset |-> offset, Rowcount |-> rowcount]
Where(type, expr) == [k |-> "Where", Type |-> type, Expr |-> expr]
\* the typed nil pointers (*Where)(nil) and (*Limit)(nil) of a Select without
\* the clause: Walk hands them to the visitor like any other node
NilWhere == [k |-> "Where", Nil |-> TRUE]
NilLimit == [k |-> "Limit", Nil |-> TRUE]
ParenTableExpr(exprs) == [k |-> "ParenTableExpr", Exprs |-> exprs]
\* a DELETE without targets, partitions, ORDER BY or LIMIT
Delete(tableExprs, where) == [k |-> "Delete", TableExprs |-> tableExprs, Where |-> where]
Select(distinct, selectExprs, from, where, groupBy, having, orderBy, limit) ==
    [k |-> "Select", Distinct |-> distinct, SelectExprs |-> selectExprs,
     From |-> from, Where |-> where, GroupBy |-> groupBy, Having |-> having,
     OrderBy |-> orderBy, Limit |-> limit]

\* ColIdent.Lowered() of the function names of the inputs
Lowered(name) ==
    CASE name = "COUNT" -> "count"
      [] name = "MAX" -> "max"
      [] name = "MIN" -> "min"
      [] name = "SUM" -> "sum"
      [] name = "AVG" -> "avg"
      [] name = "ARRAY_CONTAINS" -> "array_contains"
      [] name = "UNKNOWN_FUNC" -> "unknown_func"
      [] OTHER -> name

\* strings.ToUpper of the function names of the inputs
ToUpper(name) ==
    CASE name = "count" -> "COUNT"
      [] name = "max" -> "MAX"
      [] name = "min" -> "MIN"
      [] name = "sum" -> "SUM"
      [] name = "avg" -> "AVG"
      [] OTHER -> name

-----------------------------------------------------------------------------
(* WHERE (parseWhere and its helpers, the copy with LIKE / IN / OR / BETWEEN) *)

\* ^[a-fA-F0-9]{8}-[a-fA-F0-9]{4}-[a-fA-F0-9]{4}-[a-fA-F0-9]{4}-[a-fA-F0-9]{12}$
uuidRegex(s) ==
    /\ Len(s) = 36
    /\ \A i \in 1..36 : IF i \in {9, 14, 19, 24} THEN s[i] = "-" ELSE IsHex(s[i])

getColumnFromAliasedExpr(expr) ==
    IF expr.k = "AliasedExpr" /\ expr.Expr.k = "ColName" THEN expr.Expr ELSE NilNode

getQualifiedName(col) ==
    IF col.Qualifier = "" THEN col.Name ELSE col.Qualifier \o "." \o col.Name

\* bson.D.Map(): one entry per key, the last value of a key wins
Map(d) ==
    [t |-> "M",
     d |-> SelectSeq([i \in 1..Len(d) |->
                         IF \E j \in (i + 1)..Len(d) : d[j].Key = d[i].Key
                         THEN NilV ELSE d[i]],
                     LAMBDA e : e # NilV)]

\* collection[0] is evaluated only for a UUID, and panics on an empty name
parseID(value, collection) ==
    LET converted(uid) == [value |-> uid.binval, err |-> uid.err, panic |-> FALSE]
    IN  IF uuidRegex(value) /\ collection = ""
        THEN [value |-> NilV, err |-> NoErr, panic |-> TRUE]
        ELSE IF uuidRegex(value) /\ IsUpper0(collection)
        THEN converted(CSUUID(value))
        ELSE [value |-> StrV(value), err |-> NoErr, panic |-> FALSE]

parseSQLValue(val) ==
    LET number(num) == IF val.Type = "IntVal" /\ num.ok THEN IntV(num.n) ELSE StrV(val.Val)
    IN  number(Atoi(val.Val))

parseComparisonRight(right, collection) ==
    LET \* a text of 36 characters with 4 hyphens, for an uppercase collection
        legacy(binVal) ==
            IF binVal.err = NoErr THEN [value |-> binVal.binval, ok |-> TRUE]
            ELSE [value |-> StrV(right.Val), ok |-> TRUE]
        number(num) ==
            IF num.ok THEN [value |-> IntV(num.n), ok |-> TRUE]
            ELSE [value |-> NilV, ok |-> FALSE]
    IN  CASE right.k = "SQLVal" /\ right.Type = "StrVal" ->
                IF /\ Len(right.Val) = 36 /\ Count(right.Val, "-") = 4
                   /\ collection # "" /\ IsUpper0(collection)
                THEN legacy(CSUUID(right.Val))
                ELSE [value |-> StrV(right.Val), ok |-> TRUE]
          [] right.k = "SQLVal" /\ right.Type = "IntVal" -> number(Atoi(right.Val))
          [] right.k = "SQLVal" /\ right.Type = "FloatVal" ->
                [value |-> FloatV(right.Val), ok |-> TRUE]
          [] right.k = "ColName" ->
                [value |-> NameV(getQualifiedName(right)), ok |-> TRUE]
          [] OTHER -> [value |-> NilV, ok |-> FALSE]

applyFilter(q0, field, operator, value) ==
    CASE operator = "=" -> [q0 EXCEPT !.Filter = Append(@, E(field, value))]
      [] operator = "!=" -> [q0 EXCEPT !.Filter = Append(@, E(field, M1("$ne", value)))]
      [] operator = ">" -> [q0 EXCEPT !.Filter = Append(@, E(field, M1("$gt", value)))]
      [] operator = ">=" -> [q0 EXCEPT !.Filter = Append(@, E(field, M1("$gte", value)))]
      [] operator = "<" -> [q0 EXCEPT !.Filter = Append(@, E(field, M1("$lt", value)))]
      [] operator = "<=" -> [q0 EXCEPT !.Filter = Append(@, E(field, M1("$lte", value)))]
      [] operator = "like" ->
            \* the value is a column name here: a literal pattern was handled
            \* by handleColumnComparison
            [q0 EXCEPT !.Filter =
                Append(@, E(field, M2("$regex", [t |-> "regexOf", v |-> value],
                                      "$options", NameV("i"))))]
      [] OTHER -> q0

\* the values of an IN list: []string when every literal is a string,
\* []interface{} of parsed values otherwise; non-literals are skipped
inValues(tuple) ==
    LET lits == SelectSeq(tuple.Vals, LAMBDA v : v.k = "SQLVal")
        allStrings == \A i \in 1..Len(lits) : lits[i].Type = "StrVal"
    IN  IF allStrings
        THEN [t |-> "[]string", a |-> [i \in 1..Len(lits) |-> StrV(lits[i].Val)]]
        ELSE [t |-> "[]interface{}", a |-> [i \in 1..Len(lits) |-> parseSQLValue(lits[i])]]

handleColumnComparison(q0, col, expr) ==
    LET field == getQualifiedName(col)
        right == parseComparisonRight(expr.Right, q0.Collection)
    IN  IF expr.Operator = "like" /\ expr.Right.k = "SQLVal"
        THEN [q0 EXCEPT !.Filter =
                Append(@, E(field, M2("$regex", StrV(ReplaceAll(expr.Right.Val, "%", <<".", "*">>)),
                                      "$options", NameV("i"))))]
        ELSE IF expr.Operator \in {"in", "not in"} /\ expr.Right.k = "ValTuple"
        THEN [q0 EXCEPT !.Filter =
                Append(@, E(field, M1(IF expr.Operator = "not in" THEN "$nin" ELSE "$in",
                                      inValues(expr.Right))))]
        ELSE IF ~right.ok THEN q0
        ELSE applyFilter(q0, field, expr.Operator, right.value)

handleValueComparison(q0, val, expr) ==
    IF expr.Operator # "in" \/ expr.Right.k # "ColName" THEN q0
    ELSE LET parsed == parseID(val.Val, q0.Collection)
         IN  IF parsed.panic THEN Panic(q0)
             ELSE IF parsed.err # NoErr THEN q0
             ELSE [q0 EXCEPT !.Filter =
                      Append(@, E(expr.Right.Name,
                                  M1("$in", [t |-> "[]interface{}", a |-> <<parsed.value>>])))]

handleArrayContains(q0, expr) ==
    IF Len(expr.Exprs) # 2 THEN q0
    ELSE IF \/ expr.Exprs[1].k # "AliasedExpr" \/ expr.Exprs[1].Expr.k # "ColName"
            \/ expr.Exprs[2].k # "AliasedExpr" \/ expr.Exprs[2].Expr.k # "SQLVal"
    THEN Panic(q0)
    ELSE LET field == expr.Exprs[1].Expr.Name
             parsed == parseID(expr.Exprs[2].Expr.Val, q0.Collection)
         IN  IF parsed.panic THEN Panic(q0)
             ELSE IF parsed.err # NoErr THEN q0
             ELSE [q0 EXCEPT
                      !.Filter = Append(@, E(field,
                          M1("$in", [t |-> "[]interface{}", a |-> <<parsed.value>>]))),
                      !.Projection = <<>>,
                      !.ProjectionNil = TRUE]

handleFuncComparison(q0, expr) ==
    LET name == Lowered(expr.Name)
        colExpr == IF Len(expr.Exprs) > 0 THEN getColumnFromAliasedExpr(expr.Exprs[1])
                   ELSE NilNode
        field == colExpr.Name
    IN  CASE name = "array_contains" -> handleArrayContains(q0, expr)
          [] name \in {"count", "avg", "sum", "min", "max"} ->
                IF colExpr = NilNode THEN [q0 EXCEPT !.Operation = "aggregate"]
                ELSE [q0 EXCEPT
                        !.Operation = "aggregate",
                        !.Pipeline = Append(@, E("$group",
                            <<E("_id", NilV),
                              E(field, IF name = "count" THEN M1("$sum", IntV(<<"1">>))
                                       ELSE M1("$" \o name, NameV("$" \o field)))>>))]
          [] OTHER -> q0

parseComparison(q0, expr) ==
    CASE expr.Left.k = "FuncExpr" -> handleFuncComparison(q0, expr.Left)
      [] expr.Left.k = "ColName" -> handleColumnComparison(q0, expr.Left, expr)
      [] expr.Left.k = "SQLVal" -> handleValueComparison(q0, expr.Left, expr)
      [] OTHER -> q0

\* the left operands of the two LIKEs are asserted to be columns: .panic
isLikeOrCondition(expr) ==
    IF \/ expr.Left.k # "ComparisonExpr" \/ expr.Right.k # "ComparisonExpr"
       \/ expr.Left.Operator # "like" \/ expr.Right.Operator # "like"
    THEN [is |-> FALSE, panic |-> FALSE]
    ELSE IF expr.Left.Left.k # "ColName" THEN [is |-> FALSE, panic |-> TRUE]
    ELSE IF expr.Left.Left.Name # "name" THEN [is |-> FALSE, panic |-> FALSE]
    ELSE IF expr.Right.Left.k # "ColName" THEN [is |-> FALSE, panic |-> TRUE]
    ELSE [is |-> expr.Right.Left.Name = "description", panic |-> FALSE]

getLikePattern(expr) ==
    IF expr.Right.k = "SQLVal" THEN ReplaceAll(expr.Right.Val, "%", <<".", "*">>) ELSE <<>>

RECURSIVE parseWhereExpr(_, _)
parseWhereExpr(q0, expr) ==
    CASE q0.Panic -> q0
      [] expr.k = "ComparisonExpr" -> parseComparison(q0, expr)
      [] expr.k = "FuncExpr" ->
            parseComparison(q0, ComparisonExpr(expr, "=",
                                               SQLVal("StrVal", <<"t", "r", "u", "e">>)))
      [] expr.k = "AndExpr" ->
            parseWhereExpr(parseWhereExpr(q0, expr.Left), expr.Right)
      [] expr.k = "OrExpr" ->
            IF isLikeOrCondition(expr).panic THEN Panic(q0)
            ELSE IF isLikeOrCondition(expr).is
            THEN [q0 EXCEPT !.Filter = Append(@, E("$or", [t |-> "[]bson.M", a |->
                    <<[t |-> "M", d |-> <<E("name", M1("$regex", StrV(getLikePattern(expr.Left))))>>],
                      [t |-> "M", d |-> <<E("description", M1("$regex", StrV(getLikePattern(expr.Right))))>>]>>]))]
            ELSE LET leftQ == parseWhereExpr(NewQuery, expr.Left)
                     rightQ == parseWhereExpr(NewQuery, expr.Right)
                 IN  IF leftQ.Panic \/ rightQ.Panic THEN Panic(q0)
                     ELSE [q0 EXCEPT !.Filter = Append(@, E("$or", [t |-> "[]bson.M", a |->
                            <<Map(leftQ.Filter), Map(rightQ.Filter)>>]))]
      [] expr.k = "ParenExpr" -> parseWhereExpr(q0, expr.Expr)
      [] expr.k = "RangeCond" ->
            LET field == expr.Left.Name
                fromVal == expr.From
                toVal == expr.To
            IN  IF expr.Left.k # "ColName" \/ fromVal.k # "SQLVal" \/ toVal.k # "SQLVal"
                THEN Panic(q0)
                ELSE IF fromVal.Type = "StrVal" /\ toVal.Type = "StrVal"
                THEN [q0 EXCEPT !.Filter = Append(@, E(field,
                        M2("$gte", StrV(fromVal.Val), "$lte", StrV(toVal.Val))))]
                ELSE [q0 EXCEPT !.Filter = Append(@, E(field,
                        M2("$gte", IntV(Atoi(fromVal.Val).n), "$lte", IntV(Atoi(toVal.Val).n))))]
      [] OTHER -> q0

parseWhere(q0, node) ==
    IF node = NilWhere THEN q0 ELSE parseWhereExpr(q0, node.Expr)

-----------------------------------------------------------------------------
(* Lowering of expressions in pipeline-expression context.
   parseCaseExpr also sets q.Operation to "aggregate"; its only callers
   (handleAliasedSelectExpr) have done so already, so the lowering is kept
   as a function of the expression. *)

bsonD(key, value) == [t |-> "D", d |-> <<E(key, value)>>]

parseSQLVal(node) ==
    CASE node.Type = "StrVal" -> StrV(node.Val)
      [] node.Type = "IntVal" -> IntV(Atoi(node.Val).n)
      [] node.Type = "FloatVal" -> FloatV(node.Val)
      [] OTHER -> StrV(node.Val)

RECURSIVE parseExpr(_), parseNestedCase(_, _), parseComparisonExpr(_),
          parseFuncExprToMongo(_), parseCaseExpr(_)

cond(if, then, else) ==
    bsonD("$cond", [t |-> "D", d |-> <<E("if", if), E("then", then), E("else", else)>>])

parseNestedCase(whens, elseExpr) ==
    IF Len(whens) = 0
    THEN IF elseExpr = NilNode THEN NilV ELSE bsonD("$literal", parseExpr(elseExpr))
    ELSE LET lastWhen == whens[Len(whens)]
         IN  cond(parseExpr(lastWhen.Cond), parseExpr(lastWhen.Val),
                  IF Len(whens) = 1 THEN parseExpr(elseExpr)
                  ELSE parseNestedCase(SubSeq(whens, 1, Len(whens) - 1), elseExpr))

parseSearchedCase(node) ==
    IF Len(node.Whens) = 0 THEN NilV
    ELSE IF Len(node.Whens) = 1
    THEN cond(parseExpr(node.Whens[1].Cond), parseExpr(node.Whens[1].Val),
              parseExpr(node.Else))
    ELSE parseNestedCase(node.Whens, node.Else)

parseSimpleCase(node) ==
    IF Len(node.Whens) = 0 THEN NilV
    ELSE parseNestedCase([i \in 1..Len(node.Whens) |->
                             When(ComparisonExpr(node.Expr, "=", node.Whens[i].Cond),
                                  node.Whens[i].Val)],
                         node.Else)

parseCaseExpr(node) ==
    IF node.Expr = NilNode THEN parseSearchedCase(node) ELSE parseSimpleCase(node)

parseFuncExprToMongo(node) ==
    LET name == ToUpper(node.Name)
        first == IF Len(node.Exprs) > 0 /\ node.Exprs[1].k = "AliasedExpr"
                 THEN node.Exprs[1].Expr ELSE NilNode
    IN  CASE name = "COUNT" /\ ~(node.Distinct /\ first # NilNode) ->
                bsonD("$sum", IntV(<<"1">>))
          [] name \in {"COUNT", "SUM", "AVG", "MIN", "MAX"} /\ first # NilNode ->
                bsonD(CASE name = "COUNT" -> "$addToSet"
                        [] name = "SUM" -> "$sum"
                        [] name = "AVG" -> "$avg"
                        [] name = "MIN" -> "$min"
                        [] name = "MAX" -> "$max",
                      parseExpr(first))
          [] OTHER -> NilV    \* "unhandled function" is logged, not returned

parseComparisonExpr(node) ==
    LET compare(right) ==
            CASE node.Operator = "=" -> right
              [] node.Operator = "!=" -> M1("$ne", right)
              [] node.Operator = ">" -> M1("$gt", right)
              [] node.Operator = ">=" -> M1("$gte", right)
              [] node.Operator = "<" -> M1("$lt", right)
              [] node.Operator = "<=" -> M1("$lte", right)
              [] node.Operator = "in" ->
                    IF right.t = "[]interface{}" THEN M1("$in", right) ELSE NilV
              [] node.Operator = "not in" ->
                    IF right.t = "[]interface{}" THEN M1("$nin", right) ELSE NilV
              [] node.Operator = "like" ->
                    IF right.t = "string" /\ "s" \in DOMAIN right
                    THEN M2("$regex",
                            StrV(ReplaceAll(ReplaceAll(right.s, "%", <<".", "*">>), "_", <<".">>)),
                            "$options", NameV("i"))
                    ELSE IF right.t = "string"
                    THEN M2("$regex", [t |-> "regexOf", v |-> right], "$options", NameV("i"))
                    ELSE NilV
              [] OTHER -> NilV
    IN  compare(parseExpr(node.Right))

parseExpr(expr) ==
    CASE expr = NilNode -> NilV
      [] expr.k = "ColName" -> NameV("$" \o expr.Name)
      [] expr.k = "SQLVal" -> parseSQLVal(expr)
      [] expr.k = "FuncExpr" -> parseFuncExprToMongo(expr)
      [] expr.k = "CaseExpr" -> parseCaseExpr(expr)
      [] expr.k = "ComparisonExpr" -> parseComparisonExpr(expr)
      [] expr.k = "AndExpr" ->
            bsonD("$and", [t |-> "[]interface{}",
                           a |-> <<parseExpr(expr.Left), parseExpr(expr.Right)>>])
      [] expr.k = "OrExpr" ->
            bsonD("$or", [t |-> "[]interface{}",
                          a |-> <<parseExpr(expr.Left), parseExpr(expr.Right)>>])
      [] expr.k = "ParenExpr" -> parseExpr(expr.Expr)
      [] expr.k = "ValTuple" ->
            [t |-> "[]interface{}", a |-> [i \in 1..Len(expr.Vals) |-> parseExpr(expr.Vals[i])]]
      [] OTHER -> NilV

-----------------------------------------------------------------------------
(* group.go *)

mongoGroupStage == "$group"

\* bson.M{"_id": bson.M{f: "$f", ...}, f: bson.M{"$first": "$f"}, ...} over
\* the GROUP BY expressions that are columns
buildGroupStage(groupBy) ==
    LET cols == SelectSeq(groupBy, LAMBDA e : e.k = "ColName")
    IN  <<E("_id", Map([i \in 1..Len(cols) |-> E(cols[i].Name, NameV("$" \o cols[i].Name))]))>>
        \o Map([i \in 1..Len(cols) |->
                  E(cols[i].Name, M1("$first", NameV("$" \o cols[i].Name)))]).d

isValidOperator(op) == op \in {">", ">=", "<", "<=", "=", "!="}

parseValue(val) ==
    CASE val.Type = "IntVal" /\ Atoi(val.Val).ok -> IntV(Atoi(val.Val).n)
      [] val.Type = "FloatVal" -> FloatV(val.Val)
      [] val.Type = "StrVal" -> StrV(val.Val)
      [] OTHER -> NilV

mongoOperator(sqlOp) ==
    CASE sqlOp = ">" -> "$gt"
      [] sqlOp = ">=" -> "$gte"
      [] sqlOp = "<" -> "$lt"
      [] sqlOp = "<=" -> "$lte"
      [] sqlOp = "=" -> "$eq"
      [] sqlOp = "!=" -> "$ne"
      [] OTHER -> "$eq"

getFuncField(funcExpr) ==
    IF Len(funcExpr.Exprs) = 0 \/ funcExpr.Exprs[1].k # "AliasedExpr"
    THEN Lowered(funcExpr.Name)
    ELSE IF funcExpr.Exprs[1].As # "" THEN funcExpr.Exprs[1].As
    ELSE IF funcExpr.Exprs[1].Expr.k = "ColName"
    THEN Lowered(funcExpr.Name) \o "_" \o funcExpr.Exprs[1].Expr.Name
    ELSE Lowered(funcExpr.Name)

getComparisonField(left) ==
    CASE left.k = "ColName" -> left.Name
      [] left.k = "FuncExpr" -> getFuncField(left)
      [] OTHER -> ""

\* the $match document, or NilV when the comparison is not supported
parseHavingComparison(expr) ==
    IF \/ ~isValidOperator(expr.Operator)
       \/ expr.Right.k # "SQLVal"
       \/ getComparisonField(expr.Left) = ""
    THEN NilV
    ELSE [t |-> "M", d |-> <<E(getComparisonField(expr.Left),
                               M1(mongoOperator(expr.Operator), parseValue(expr.Right)))>>]

parseHavingExpr(expr) ==
    IF expr.k = "ComparisonExpr" THEN parseHavingComparison(expr) ELSE NilV

addHavingClause(q0, having) ==
    IF having = NilWhere THEN q0
    ELSE IF having.Expr = NilNode THEN q0
    ELSE IF parseHavingExpr(having.Expr) # NilV
    THEN [q0 EXCEPT !.Pipeline = Append(@, E("$match", parseHavingExpr(having.Expr)))]
    ELSE q0

parseGroupBy(q0, groupBy, having) ==
    IF Len(groupBy) = 0 THEN q0
    ELSE addHavingClause(
            [q0 EXCEPT !.Operation = "aggregate",
                       !.Pipeline = Append(@, E(mongoGroupStage, buildGroupStage(groupBy)))],
            having)

-----------------------------------------------------------------------------
(* order.go *)

direction(order) == IF order.Direction = "desc" THEN IntV(<<"-", "1">>) ELSE IntV(<<"1">>)

buildSimpleSort(orderBy) ==
    LET cols == SelectSeq(orderBy, LAMBDA o : o.Expr.k = "ColName")
    IN  [i \in 1..Len(cols) |-> E(cols[i].Expr.Name, direction(cols[i]))]

\* a bson.M: one entry per column, the last direction given wins
buildSortStage(orderBy) == Map(buildSimpleSort(orderBy))

buildAggregatePipelineSort(q0, orderBy) ==
    IF Len(buildSortStage(orderBy).d) > 0
    THEN [q0 EXCEPT !.Operation = "aggregate",
                    !.Pipeline = Append(@, E("$sort", buildSortStage(orderBy)))]
    ELSE q0

parseOrderBy(q0, orderBy) ==
    IF Len(orderBy) = 0 THEN q0
    ELSE IF q0.Operation # "aggregate" /\ Len(buildSimpleSort(orderBy)) > 0
    THEN [q0 EXCEPT !.Sort = buildSimpleSort(orderBy)]
    ELSE buildAggregatePipelineSort(q0, orderBy)

-----------------------------------------------------------------------------
(* LIMIT / OFFSET (parseLimit) *)

parseLimit(q0, node) ==
    LET \* the rest of parseLimit once both values are parsed (row, off)
        limited(row, off) ==
            LET q1 == IF node.Rowcount.k = "SQLVal" THEN [q0 EXCEPT !.Limit = row.ptr] ELSE q0
                q2 == IF node.Offset.k = "SQLVal" THEN [q1 EXCEPT !.Offset = off.ptr] ELSE q1
            IN  IF node.Rowcount.k = "SQLVal" /\ row.err # NoErr THEN q1
                ELSE IF node.Offset.k = "SQLVal" /\ off.err # NoErr THEN q2
                ELSE IF q2.Limit = <<>> THEN Panic(q2)      \* *q.Limit of a nil pointer
                ELSE IF q2.Limit[1] = <<"1">> THEN [q2 EXCEPT !.Operation = "findone"]
                ELSE q2
        parsed(value) == IF value.k = "SQLVal" THEN makeint64Pointer(value)
                         ELSE [ptr |-> <<>>, err |-> NoErr]
    IN  IF node = NilLimit THEN q0
        ELSE limited(parsed(node.Rowcount), parsed(node.Offset))

-----------------------------------------------------------------------------
(* function.go *)

\* an AliasedExpr never prints as "*": a star argument is a StarExpr
isStarExpr(expr) == FALSE

\* sqlparser.String(expr) = "q.*"
isQStar(expr) == expr.k = "StarExpr" /\ expr.TableName = "q"

getAlias(node) ==
    IF Len(node.Exprs) > 0 /\ node.Exprs[1].k = "AliasedExpr"
    THEN IF node.Exprs[1].As # "" THEN node.Exprs[1].As
         ELSE IF node.Exprs[1].Expr.k = "ColName"
         THEN Lowered(node.Name) \o "_" \o node.Exprs[1].Expr.Name
         ELSE Lowered(node.Name)
    ELSE Lowered(node.Name)

handleCountStar(q0, node) ==
    [q0 EXCEPT !.Operation = "aggregate",
               !.Pipeline = Append(@, E(mongoGroupStage,
                    <<E("_id", NilV), E(getAlias(node), M1("$sum", IntV(<<"1">>)))>>))]

handleRegularCount(q0, node) ==
    IF Len(node.Exprs) > 0 /\ getColumnFromAliasedExpr(node.Exprs[1]) # NilNode
    THEN [q0 EXCEPT !.Operation = "aggregate",
                    !.Pipeline = Append(@, E(mongoGroupStage,
                        <<E("_id", NilV),
                          E(getAlias(node),
                            M1("$sum", M1("$cond", [t |-> "[]interface{}", a |->
                                <<M1("$ne", [t |-> "[]interface{}", a |->
                                        <<NameV("$" \o node.Exprs[1].Expr.Name), NilV>>]),
                                  IntV(<<"1">>), IntV(<<"0">>)>>])))>>))]
    ELSE [q0 EXCEPT !.Operation = "aggregate"]

handleAggregateFunc(q0, node) ==
    IF Len(node.Exprs) > 0 /\ getColumnFromAliasedExpr(node.Exprs[1]) # NilNode
    THEN [q0 EXCEPT !.Operation = "aggregate",
                    !.Pipeline = Append(@, E(mongoGroupStage,
                        <<E("_id", NilV),
                          E(getAlias(node),
                            M1("$" \o Lowered(node.Name),
                               NameV("$" \o node.Exprs[1].Expr.Name)))>>))]
    ELSE [q0 EXCEPT !.Operation = "aggregate"]

\* parent is what getParentExpr finds: the AliasedExpr whose Expr is this very
\* node, or NilNode
parseFunc(q0, node, parent) ==
    LET name == Lowered(node.Name)
    IN  CASE name = "count" ->
                IF node.Distinct THEN handleCountStar(q0, node)
                ELSE IF parent # NilNode /\ parent.As # "" THEN handleCountStar(q0, node)
                ELSE IF Len(node.Exprs) <= 1 /\
                        (Len(node.Exprs) = 0 \/ isStarExpr(node.Exprs[1]) \/ isQStar(node.Exprs[1]))
                THEN [q0 EXCEPT !.Operation = "count"]
                ELSE handleRegularCount(q0, node)
          [] name \in {"min", "max", "sum", "avg"} -> handleAggregateFunc(q0, node)
          [] OTHER -> q0

-----------------------------------------------------------------------------
(* JOIN (parseJoin), with the helpers of coversion.go *)

aliasedTableName(expr) ==
    CASE expr.k = "AliasedTableExpr" /\ expr.Expr.k = "TableName" -> expr.Expr.Name
      [] /\ expr.k = "JoinTableExpr" /\ expr.LeftExpr.k = "AliasedTableExpr"
         /\ expr.LeftExpr.Expr.k = "TableName" -> expr.LeftExpr.Expr.Name
      [] OTHER -> ""

colName(col) == IF col.k = "ColName" THEN col.Name ELSE ""

unwind(rightTable) ==
    E("$unwind", [t |-> "M", d |-> <<E("path", NameV("$" \o rightTable)),
                                    E("preserveNullAndEmptyArrays", [t |-> "bool", b |-> TRUE])>>])

\* the $lookup of a JOIN whose ON compares with a scalar subquery; .panic when
\* one of the unchecked assertions and indexings on the subquery fails
subqueryLookup(sel, rightTable) ==
    IF \/ sel.Where = NilWhere
       \/ sel.From[1].k # "AliasedTableExpr" \/ sel.From[1].Expr.k # "TableName"
       \/ Len(sel.OrderBy) = 0 \/ sel.OrderBy[1].Expr.k # "ColName"
    THEN [panic |-> TRUE, stage |-> NilV]
    ELSE LET selectField == colName(sel.SelectExprs[1].Expr)
             whereField == colName(sel.Where.Expr.Left)
         IN  [panic |-> FALSE,
              stage |-> E("$lookup", [t |-> "M", d |->
                <<E("from", NameV(sel.From[1].Expr.Name)),
                  E("let", M1(whereField, NameV("$" \o whereField))),
                  E("pipeline", [t |-> "[]bson.M", a |->
                    <<M1("$match", M1("$expr", M1("$eq", [t |-> "[]string", a |->
                            <<NameV("$" \o whereField), NameV("$$" \o whereField)>>]))),
                      M1("$sort", M1(sel.OrderBy[1].Expr.Name, IntV(<<"-", "1">>))),
                      M1("$limit", IntV(<<"1">>)),
                      M1("$project", M1(selectField, IntV(<<"1">>)))>>]),
                  E("as", NameV(rightTable))>>])]

parseJoin(q0, node) ==
    LET name == aliasedTableName(node.LeftExpr)
        q1 == [q0 EXCEPT !.Operation = "aggregate",
                         !.Collection = IF name # "" THEN name ELSE @]
        rightTable == aliasedTableName(node.RightExpr)
        onExpr == node.On
    IN  IF rightTable = "" THEN q1
        ELSE IF onExpr.k # "ComparisonExpr" THEN Panic(q1)   \* on(): failed assertion
        ELSE IF onExpr.Right.k = "Subquery"
        THEN IF onExpr.Right.Select.k # "Select" THEN q1
             ELSE IF onExpr.Right.Select.SelectExprs[1].k # "AliasedExpr" THEN q1
             ELSE IF onExpr.Right.Select.Where = NilWhere THEN Panic(q1)
             ELSE IF onExpr.Right.Select.Where.Expr.k # "ComparisonExpr" THEN q1
             ELSE IF subqueryLookup(onExpr.Right.Select, rightTable).panic THEN Panic(q1)
             ELSE [q1 EXCEPT !.Pipeline =
                      @ \o <<subqueryLookup(onExpr.Right.Select, rightTable).stage,
                             unwind(rightTable)>>]
        ELSE IF colName(onExpr.Left) # "" /\ colName(onExpr.Right) # ""
        THEN [q1 EXCEPT !.Pipeline =
                @ \o <<E("$lookup", [t |-> "M", d |->
                          <<E("from", NameV(rightTable)),
                            E("localField", NameV(colName(onExpr.Left))),
                            E("foreignField", NameV(colName(onExpr.Right))),
                            E("as", NameV(rightTable))>>]),
                       unwind(rightTable)>>]
        ELSE q1

-----------------------------------------------------------------------------
(* table.go *)

parseTable(q0, node) == q0

handleAliasedTable(q0, alias) ==
    IF alias.Expr.k = "TableName" /\ alias.Expr.Name # ""
    THEN [q0 EXCEPT !.Collection = alias.Expr.Name]
    ELSE q0

\* alias.Expr.(*sqlparser.TableName) never holds: the parser stores the table
\* name by value, so no collection is set here
setCollectionFromAlias(q0, alias) == q0

handleJoinExpr(q0, join) ==
    LET q1 == [q0 EXCEPT !.Operation = "aggregate"]
        q2 == IF join.LeftExpr.k = "AliasedTableExpr"
              THEN setCollectionFromAlias(q1, join.LeftExpr) ELSE q1
    IN  IF join.RightExpr.k = "AliasedTableExpr"
        THEN setCollectionFromAlias(q2, join.RightExpr) ELSE q2

\* the loop over the FROM expressions, which stops after the first JOIN
RECURSIVE setupQueryFromClause(_, _)
setupQueryFromClause(q0, fromClauses) ==
    IF fromClauses = <<>> THEN q0
    ELSE IF Head(fromClauses).k = "JoinTableExpr" THEN handleJoinExpr(q0, Head(fromClauses))
    ELSE IF Head(fromClauses).k = "AliasedTableExpr"
    THEN setupQueryFromClause(handleAliasedTable(q0, Head(fromClauses)), Tail(fromClauses))
    ELSE setupQueryFromClause(q0, Tail(fromClauses))

-----------------------------------------------------------------------------
(* SELECT list (parseSelect and its helpers) *)

\* append(q.Projection, e): appending to a nil slice gives a non-nil one
appendProjection(q0, e) ==
    [q0 EXCEPT !.Projection = Append(@, e), !.ProjectionNil = FALSE]

\* the $project stage of a CASE, logical or comparison item
projectStage(q0, as, value) ==
    [q0 EXCEPT !.Operation = "aggregate",
               !.Pipeline = Append(@, E("$project", <<E(as, value)>>))]

getAggregateAlias(aliased, expr, defaultName) ==
    IF aliased.As # "" THEN aliased.As
    ELSE IF Len(expr.Exprs) > 0 /\ getColumnFromAliasedExpr(expr.Exprs[1]) # NilNode
    THEN defaultName \o "_" \o getColumnFromAliasedExpr(expr.Exprs[1]).Name
    ELSE defaultName

addAggregateStage(q0, aliased, expr, operator, value) ==
    LET alias == IF aliased.As # "" THEN aliased.As
                 ELSE IF Len(expr.Exprs) > 0 /\ getColumnFromAliasedExpr(expr.Exprs[1]) # NilNode
                 THEN Lowered(expr.Name) \o "_" \o getColumnFromAliasedExpr(expr.Exprs[1]).Name
                 ELSE Lowered(expr.Name)
    IN  [q0 EXCEPT !.Pipeline = Append(@, E(mongoGroupStage,
                        <<E("_id", NilV), E(alias, M1(operator, value))>>))]

addDistinctCountStage(q0, alias, colExpr) ==
    [q0 EXCEPT !.Pipeline = @ \o
        << E("$group", <<E("_id", NameV("$" \o colExpr.Name))>>),
           E("$group", <<E("_id", NilV), E(alias, M1("$sum", IntV(<<"1">>)))>>) >>]

handleCount(q0, aliased, expr) ==
    IF expr.Distinct /\ Len(expr.Exprs) > 0 /\ getColumnFromAliasedExpr(expr.Exprs[1]) # NilNode
    THEN addDistinctCountStage(q0, getAggregateAlias(aliased, expr, "count"),
                               getColumnFromAliasedExpr(expr.Exprs[1]))
    ELSE addAggregateStage(q0, aliased, expr, "$sum", IntV(<<"1">>))

handleSimpleAggregate(q0, aliased, expr, funcName) ==
    IF Len(expr.Exprs) > 0 /\ getColumnFromAliasedExpr(expr.Exprs[1]) # NilNode
    THEN addAggregateStage(q0, aliased, expr, "$" \o funcName,
                           NameV("$" \o getColumnFromAliasedExpr(expr.Exprs[1]).Name))
    ELSE q0

handleDistinct(q0, expr) ==
    LET q1 == [q0 EXCEPT !.Operation = "distinct"]
    IN  IF Len(expr.Exprs) > 0 /\ getColumnFromAliasedExpr(expr.Exprs[1]) # NilNode
        THEN appendProjection(q1, E(getColumnFromAliasedExpr(expr.Exprs[1]).Name, IntV(<<"1">>)))
        ELSE q1

\* a function the switch does not know is only logged: no error is recorded
handleFuncExpr(q0, aliased, expr) ==
    LET funcName == Lowered(expr.Name)
        q1 == [q0 EXCEPT !.Operation = "aggregate"]
    IN  CASE funcName = "distinct" -> handleDistinct(q1, expr)
          [] funcName = "count" -> handleCount(q1, aliased, expr)
          [] funcName \in {"sum", "avg", "min", "max"} ->
                handleSimpleAggregate(q1, aliased, expr, funcName)
          [] OTHER -> q1

appendSubqueryPipeline(q0, subQ, alias) ==
    [q0 EXCEPT !.Operation = "aggregate",
               !.Pipeline = @ \o
        << E("$lookup", <<E("from", NameV(subQ.Collection)),
                          E("localField", NameV("id")),
                          E("foreignField", NameV("user_id")),
                          E("as", NameV("subquery_result"))>>),
           E("$addFields", <<E(alias, <<E("$size", NameV("$subquery_result"))>>)>>) >>]

\* sub is what subStmt.Build(subQ) returns for the subquery's statement; the
\* walker evaluates it and hands it down (see subqueryBuilds)
handleSubquery(q0, aliased, sub) ==
    IF sub.q.Panic THEN Panic(q0)
    ELSE IF sub.err = NoErr THEN appendSubqueryPipeline(q0, sub.q, aliased.As)
    ELSE q0

\* the state of one parseSelect call: selectState, with the query by value
RECURSIVE handleAliasedSelectExpr(_, _, _)
handleAliasedSelectExpr(state, expr, sub) ==
    LET x == expr.Expr
        complex(q1) == [state EXCEPT !.query = q1, !.hasComplexAggr = TRUE]
    IN  CASE x.k = "CaseExpr" ->
                complex(projectStage(state.query, expr.As, parseCaseExpr(x)))
          [] x.k \in {"AndExpr", "OrExpr"} ->
                complex(projectStage(state.query, expr.As, parseExpr(x)))
          [] x.k = "ComparisonExpr" ->
                complex(projectStage(state.query, expr.As, parseComparisonExpr(x)))
          [] x.k = "ColName" ->
                [state EXCEPT !.query = appendProjection(@, E(x.Name, IntV(<<"1">>)))]
          [] x.k = "FuncExpr" -> complex(handleFuncExpr(state.query, expr, x))
          [] x.k = "Subquery" ->
                [state EXCEPT !.query = handleSubquery(@, expr, sub),
                              !.hasSubquery = TRUE, !.hasComplexAggr = TRUE]
          [] x.k = "ParenExpr" ->
                handleAliasedSelectExpr(state, AliasedExpr(x.Expr, expr.As), sub)
          [] x.k = "SQLVal" ->
                [state EXCEPT !.query = appendProjection(@, E(expr.As, StrV(x.Val)))]
          [] OTHER -> state

\* .continue is the bool the Go function returns
handleSelectExpr(state, expr, sub) ==
    IF expr.k = "StarExpr"
    THEN [state |-> [state EXCEPT !.query.Projection = <<>>, !.query.ProjectionNil = TRUE],
          continue |-> FALSE]
    ELSE IF expr.k # "AliasedExpr" THEN [state |-> state, continue |-> TRUE]
    ELSE [state |-> handleAliasedSelectExpr(state, expr, sub), continue |-> TRUE]

finalizeSelectQuery(state) ==
    LET q1 == IF state.hasSubquery \/ state.hasComplexAggr
              THEN [state.query EXCEPT !.Operation = "aggregate"] ELSE state.query
    IN  IF Len(q1.Projection) = 0 /\ q1.Operation # "aggregate"
        THEN [q1 EXCEPT !.Projection = <<>>, !.ProjectionNil = TRUE]
        ELSE q1

\* the loop of parseSelect over the items from index i on; subs[i] is the
\* Build of item i's subquery
RECURSIVE selectLoop(_, _, _, _)
selectLoop(state, node, subs, i) ==
    IF state.query.Panic THEN state.query
    ELSE IF i > Len(node) THEN finalizeSelectQuery(state)
    ELSE LET r == handleSelectExpr(state, node[i], subs[i])
         IN  IF r.continue THEN selectLoop(r.state, node, subs, i + 1) ELSE r.state.query

parseSelect(q0, node, subs) ==
    IF node = <<>> THEN q0
    ELSE selectLoop([query |-> [q0 EXCEPT !.ProjectionNil = FALSE],
                     hasSubquery |-> FALSE, hasComplexAggr |-> FALSE], node, subs, 1)

-----------------------------------------------------------------------------
(* sqlparser.Walk: the nodes of a tree in the order the visitor sees them *)

\* a node none of the walker's cases names (ColIdent, TableIdent, Comments, ...)
Leaf(kind) == [k |-> kind]

\* the list types, which Walk visits as nodes of their own
SelectExprs(exprs) == [k |-> "SelectExprs", Exprs |-> exprs]
TableExprs(exprs) == [k |-> "TableExprs", Exprs |-> exprs]

\* one visit: the node, and for a FuncExpr the AliasedExpr that holds it
Visit(n, parent) == <<[node |-> n, parent |-> parent]>>

RECURSIVE Nodes(_, _)
RECURSIVE NodesOfAll(_)
NodesOfAll(ns) == IF ns = <<>> THEN <<>> ELSE Nodes(Head(ns), NilNode) \o NodesOfAll(Tail(ns))

\* Walk skips a nil interface; a typed nil pointer is visited and has no subtree
Nodes(n, parent) ==
    LET self == Visit(n, parent)
        sub(ns) == NodesOfAll(ns)
    IN  CASE n = NilNode -> <<>>
          [] n = NilWhere \/ n = NilLimit -> self
          [] n.k = "Select" ->
                self \o sub(<<Leaf("Comments"), SelectExprs(n.SelectExprs), TableExprs(n.From),
                              n.Where, [k |-> "GroupBy", Exprs |-> n.GroupBy], n.Having,
                              [k |-> "OrderBy", Exprs |-> n.OrderBy], n.Limit>>)
          [] n.k = "Delete" ->
                self \o sub(<<Leaf("Comments"), Leaf("TableNames"), TableExprs(n.TableExprs),
                              Leaf("Partitions"), n.Where, [k |-> "OrderBy", Exprs |-> <<>>],
                              NilLimit>>)
          [] n.k = "ParenTableExpr" -> self \o sub(<<TableExprs(n.Exprs)>>)
          [] n.k \in {"SelectExprs", "TableExprs", "GroupBy", "OrderBy", "Exprs"} ->
                self \o sub(n.Exprs)
          [] n.k = "AliasedExpr" ->
                self \o Nodes(n.Expr, n) \o sub(<<Leaf("ColIdent")>>)
          [] n.k = "StarExpr" -> self \o sub(<<TableName(n.TableName)>>)
          [] n.k = "ColName" -> self \o sub(<<Leaf("ColIdent"), TableName(n.Qualifier)>>)
          [] n.k = "TableName" -> self \o sub(<<Leaf("TableIdent"), Leaf("TableIdent")>>)
          [] n.k = "AliasedTableExpr" ->
                self \o sub(<<n.Expr, Leaf("Partitions"), Leaf("TableIdent"), Leaf("IndexHints")>>)
          [] n.k = "JoinTableExpr" ->
                self \o sub(<<n.LeftExpr, n.RightExpr, Leaf("JoinCondition"), n.On,
                              Leaf("Columns")>>)
          [] n.k = "Where" -> self \o sub(<<n.Expr>>)
          [] n.k = "Limit" -> self \o sub(<<n.Offset, n.Rowcount>>)
          [] n.k = "Order" -> self \o sub(<<n.Expr>>)
          [] n.k \in {"ComparisonExpr", "AndExpr", "OrExpr"} -> self \o sub(<<n.Left, n.Right>>)
          [] n.k \in {"ParenExpr", "IsExpr"} -> self \o sub(<<n.Expr>>)
          [] n.k = "RangeCond" -> self \o sub(<<n.Left, n.From, n.To>>)
          [] n.k = "ValTuple" -> self \o sub(<<[k |-> "Exprs", Exprs |-> n.Vals]>>)
          [] n.k = "FuncExpr" ->
                self \o sub(<<Leaf("TableIdent"), Leaf("ColIdent"), SelectExprs(n.Exprs)>>)
          [] n.k = "CaseExpr" -> self \o sub(<<n.Expr>> \o n.Whens \o <<n.Else>>)
          [] n.k = "When" -> self \o sub(<<n.Cond, n.Val>>)
          [] n.k = "Subquery" -> self \o sub(<<n.Select>>)
          [] OTHER -> self

-----------------------------------------------------------------------------
(* statement.go *)

handleSelectNode(q0, node) ==
    LET q1 == IF q0.Collection = "" THEN setupQueryFromClause(q0, node.From) ELSE q0
        q2 == IF node.Distinct # "" THEN [q1 EXCEPT !.Operation = "distinct"]
              ELSE IF q1.Operation = "" THEN [q1 EXCEPT !.Operation = "find"]
              ELSE q1
    IN  parseOrderBy(parseGroupBy(q2, node.GroupBy, node.Having), node.OrderBy)

\* sub is what subStmt.Build(subQ) returns for the subquery's statement
handleAliasedExpr(q0, node, sub) ==
    IF node.Expr.k = "Subquery"
    THEN IF sub.q.Panic THEN Panic(q0)
         ELSE IF sub.err = NoErr THEN [q0 EXCEPT !.Pipeline = @ \o sub.q.Pipeline]
         ELSE q0
    ELSE q0

finalizeQuery(q0, root) ==
    IF root.k = "Select"
    THEN LET needsAggregate == \/ Len(root.GroupBy) > 0
                               \/ root.Having # NilWhere
                               \/ Len(root.OrderBy) > 0
                               \/ Len(root.From) > 1
         IN  IF needsAggregate /\ q0.Operation # "count"
             THEN [q0 EXCEPT !.Operation = "aggregate"]
             ELSE IF q0.Operation = "" THEN [q0 EXCEPT !.Operation = "find"]
             ELSE q0
    ELSE q0

\* the type switch of walkNode, as the Build of a subquery runs it; subs holds
\* the plans of the node's own subqueries
walkNode(q0, v, subs) ==
    LET node == v.node
    IN  CASE node.k = "TableName" -> parseTable(q0, node)
          [] node.k = "Select" -> handleSelectNode(q0, node)
          [] node.k = "SelectExprs" -> parseSelect(q0, node.Exprs, subs)
          [] node.k = "Where" -> parseWhere(q0, node)
          [] node.k = "Limit" -> parseLimit(q0, node)
          [] node.k = "FuncExpr" -> parseFunc(q0, node, v.parent)
          [] node.k = "JoinTableExpr" -> parseJoin(q0, node)
          [] node.k = "AliasedExpr" -> handleAliasedExpr(q0, node, subs[1])
          [] OTHER -> q0

\* Statement.Build on a fresh Query, for the statement printed from a subquery
RECURSIVE Build(_)

\* the Select of a subquery item, through any parentheses around it
RECURSIVE subquerySelect(_)
subquerySelect(x) ==
    CASE x.k = "Subquery" -> x.Select
      [] x.k = "ParenExpr" -> subquerySelect(x.Expr)
      [] OTHER -> NilNode

\* the Build of a select item's subquery (a fresh, unused plan without one)
subqueryBuild(expr) ==
    IF expr.k = "AliasedExpr" /\ subquerySelect(expr.Expr) # NilNode
    THEN Build(subquerySelect(expr.Expr))
    ELSE [q |-> NewQuery, err |-> NoErr]

\* the subquery plans the translator of a visit asks for: handleSubquery one
\* for each item of a SELECT list, handleAliasedExpr one (the first) for its
\* own item
subqueryBuilds(v) ==
    LET items == IF v.node.k = "SelectExprs" THEN v.node.Exprs ELSE <<v.node>>
    IN  [i \in 1..Len(items) |-> subqueryBuild(items[i])]

\* sqlparser.Walk with the walkNode visitor; a panic ends the walk
RECURSIVE Walk(_, _)
Walk(q0, visits) ==
    IF visits = <<>> \/ q0.Panic THEN q0
    ELSE Walk(walkNode(q0, Head(visits), subqueryBuilds(Head(visits))), Tail(visits))

\* the text printed from a subquery's tree parses back to that tree, so
\* there is no syntax error on this path
Build(root) ==
    LET finish(q1) == [q |-> IF q1.Panic THEN q1 ELSE finalizeQuery(q1, root), err |-> NoErr]
    IN  finish(Walk(NewQuery, Nodes(root, NilNode)))

-----------------------------------------------------------------------------
(* The statements explored.  A well-formed text is given by the tree the
   parser builds for it, an ill-formed one by the parser's error. *)

Col(name) == AliasedExpr(ColName("", name), "")
Table(name, as) == AliasedTableExpr(TableName(name), as)
IntLit(n) == SQLVal("IntVal", <<Digits[n + 1]>>)
Str(chars) == SQLVal("StrVal", chars)
Eq(left, right) == ComparisonExpr(left, "=", right)

\* '6ba7b810-9dad-11d1-80b4-00c04fd430c8'
UUIDText ==
    <<"6", "b", "a", "7", "b", "8", "1", "0", "-", "9", "d", "a", "d", "-", "1", "1", "d", "1", "-", "8", "0", "b", "4", "-", "0", "0", "c", "0", "4", "f", "d", "4", "3", "0", "c", "8">>
\* 'x'
PlainText == <<"x">>

\* SELECT COUNT(*) FROM orders WHERE orders.user_id = users.id
CountOrders ==
    Select("", <<AliasedExpr(FuncExpr("COUNT", FALSE, <<StarExpr("")>>), "")>>,
           <<Table("orders", "")>>,
           Where("where", Eq(ColName("orders", "user_id"), ColName("users", "id"))),
           <<>>, NilWhere, <<>>, NilLimit)

\* SELECT y FROM u LIMIT 1
FirstY ==
    Select("", <<Col("y")>>, <<Table("u", "")>>, NilWhere, <<>>, NilWhere, <<>>,
           Limit(NilNode, IntLit(1)))

SelectLists ==
    { <<StarExpr("")>>,                                                  \* *
      <<Col("name")>>,                                                   \* name
      <<AliasedExpr(FuncExpr("COUNT", FALSE, <<StarExpr("q")>>), "")>>,  \* COUNT(q.*)
      <<AliasedExpr(FuncExpr("COUNT", FALSE, <<StarExpr("")>>), "total")>>,
      <<AliasedExpr(FuncExpr("MAX", FALSE, <<Col("price")>>), "")>>,     \* MAX(price)
      <<AliasedExpr(FuncExpr("UNKNOWN_FUNC", FALSE, <<Col("user_id")>>), "bad_func")>>,
      \* CASE WHEN age > 1 THEN 'x' ELSE 'x' END AS bracket
      <<AliasedExpr(CaseExpr(NilNode,
                             <<When(ComparisonExpr(ColName("", "age"), ">", IntLit(1)),
                                    Str(PlainText))>>,
                             Str(PlainText)), "bracket")>>,
      \* name, (SELECT COUNT(*) FROM orders WHERE ...) AS order_count
      <<Col("name"), AliasedExpr(Subquery(CountOrders), "order_count")>> }

FromClauses ==
    { <<Table("users", "")>>,
      <<Table("User", "")>>,
      \* users AS u JOIN profiles AS p ON u.id = p.user_id
      <<JoinTableExpr(Table("users", "u"), "join", Table("profiles", "p"),
                      Eq(ColName("u", "id"), ColName("p", "user_id")))>>,
      <<Table("users", ""), Table("orders", "")>> }

Wheres ==
    { NilWhere,
      Where("where", Eq(ColName("", "_id"), Str(UUIDText))),
      Where("where", Eq(ColName("", "name"), Str(PlainText))),
      Where("where", IsExpr("is null", ColName("", "name"))),
      Where("where", OrExpr(Eq(ColName("", "_id"), Str(UUIDText)),
                            Eq(ColName("", "name"), Str(PlainText)))),
      Where("where", AndExpr(Eq(ColName("", "age"), IntLit(1)),
                             IsExpr("is null", ColName("", "name")))),
      Where("where", ComparisonExpr(ColName("", "x"), "in", Subquery(FirstY))) }

\* GROUP BY with its HAVING
Groupings ==
    { [groupBy |-> <<>>, having |-> NilWhere],
      [groupBy |-> <<ColName("", "department")>>, having |-> NilWhere],
      [groupBy |-> <<ColName("", "department")>>,
       having |-> Where("having",
                        ComparisonExpr(FuncExpr("COUNT", FALSE, <<StarExpr("")>>), ">", IntLit(5)))] }

Orderings == { <<>>, <<Order(ColName("", "name"), "desc")>> }

Limits == {NilLimit} \cup {Limit(NilNode, IntLit(n)) : n \in 1..MaxRowcount}

\* SELECT list FROM from [WHERE ...] [LIMIT ...]
Simple(list, from, where, limit) ==
    Select("", list, from, where, <<>>, NilWhere, <<>>, limit)

Users == <<Table("users", "")>>

\* statements whose LIMIT, BETWEEN, ON or OR operand is not of the usual type
OddOperands ==
    { \* SELECT * FROM users LIMIT n
      Simple(<<StarExpr("")>>, Users, NilWhere, Limit(NilNode, ColName("", "n"))),
      \* SELECT * FROM users WHERE 1 BETWEEN 0 AND 2
      Simple(<<StarExpr("")>>, Users,
             Where("where", RangeCond(IntLit(1), "between", IntLit(0), IntLit(2))), NilLimit),
      \* SELECT * FROM users AS u JOIN profiles AS p ON u.id = p.user_id AND u.x = p.y
      Simple(<<StarExpr("")>>,
             <<JoinTableExpr(Table("users", "u"), "join", Table("profiles", "p"),
                             AndExpr(Eq(ColName("u", "id"), ColName("p", "user_id")),
                                     Eq(ColName("u", "x"), ColName("p", "y"))))>>,
             NilWhere, NilLimit),
      \* SELECT * FROM User WHERE '6ba7b810-...' = _id OR name = 'x'
      Simple(<<StarExpr("")>>, <<Table("User", "")>>,
             Where("where", OrExpr(Eq(Str(UUIDText), ColName("", "_id")),
                                   Eq(ColName("", "name"), Str(PlainText)))), NilLimit) }

\* statements that name their table outside a plain FROM entry
OtherShapes ==
    { \* SELECT * FROM (users, orders)
      Simple(<<StarExpr("")>>, <<ParenTableExpr(<<Table("users", ""), Table("orders", "")>>)>>,
             NilWhere, NilLimit),
      \* DELETE FROM users WHERE name = 'x'
      Delete(Users, Where("where", Eq(ColName("", "name"), Str(PlainText)))) }

\* statements with several select items or several literals
Lists ==
    { \* SELECT name, age FROM users
      Simple(<<Col("name"), Col("age")>>, Users, NilWhere, NilLimit) }

\* COUNT(...)
CountOf(table) == AliasedExpr(FuncExpr("COUNT", FALSE, <<StarExpr(table)>>), "")

\* statements that count rows
Counts ==
    { Simple(<<CountOf("")>>, Users, NilWhere, NilLimit),       \* SELECT COUNT(*) FROM users
      \* SELECT COUNT(u.*) FROM users AS u
      Simple(<<CountOf("u")>>, <<Table("users", "u")>>, NilWhere, NilLimit),
      \* SELECT COUNT(*), name FROM users
      Simple(<<CountOf(""), Col("name")>>, Users, NilWhere, NilLimit),
      \* SELECT name, COUNT(q.*) FROM users
      Simple(<<Col("name"), CountOf("q")>>, Users, NilWhere, NilLimit) }

\* 9223372036854775808, one more than the largest int64
TooLarge ==
    SQLVal("IntVal", <<"9", "2", "2", "3", "3", "7", "2", "0", "3", "6", "8", "5", "4",
                       "7", "7", "5", "8", "0", "8">>)

\* statements that compare a column with an integer literal
Literals ==
    { \* SELECT * FROM users WHERE age = 9223372036854775808
      Simple(<<StarExpr("")>>, Users, Where("where", Eq(ColName("", "age"), TooLarge)), NilLimit),
      \* SELECT * FROM users WHERE age = 7
      Simple(<<StarExpr("")>>, Users, Where("where", Eq(ColName("", "age"), IntLit(7))), NilLimit) }

\* statements with a LEFT JOIN and with two JOINs
Joins ==
    { \* SELECT * FROM users AS u LEFT JOIN profiles AS p ON u.id = p.user_id
      Simple(<<StarExpr("")>>,
             <<JoinTableExpr(Table("users", "u"), "left join", Table("profiles", "p"),
                             Eq(ColName("u", "id"), ColName("p", "user_id")))>>,
             NilWhere, NilLimit),
      \* SELECT * FROM users AS u JOIN departments AS d ON u.dept_id = d.id
      \*                          JOIN projects AS p ON u.id = p.user_id
      Simple(<<StarExpr("")>>,
             <<JoinTableExpr(JoinTableExpr(Table("users", "u"), "join", Table("departments", "d"),
                                           Eq(ColName("u", "dept_id"), ColName("d", "id"))),
                             "join", Table("projects", "p"),
                             Eq(ColName("u", "id"), ColName("p", "user_id")))>>,
             NilWhere, NilLimit) }

\* statements with several AND-conjuncts
Conjunctions ==
    { \* SELECT * FROM users WHERE score BETWEEN 0 AND 2
      \*                         AND (name = 'x' OR nick = 'x') AND age = 1
      Simple(<<StarExpr("")>>, Users,
             Where("where",
                   AndExpr(AndExpr(RangeCond(ColName("", "score"), "between", IntLit(0), IntLit(2)),
                                   ParenExpr(OrExpr(Eq(ColName("", "name"), Str(PlainText)),
                                                    Eq(ColName("", "nick"), Str(PlainText))))),
                           Eq(ColName("", "age"), IntLit(1)))),
             NilLimit) }

\* SELECT y FROM u WHERE z = 1 LIMIT 2
SomeY ==
    Select("", <<Col("y")>>, <<Table("u", "")>>,
           Where("where", Eq(ColName("", "z"), IntLit(1))), <<>>, NilWhere, <<>>,
           Limit(NilNode, IntLit(2)))

\* SELECT user_id FROM orders WHERE user_id = 1 ORDER BY created DESC LIMIT 1
LastOrder ==
    Select("", <<Col("user_id")>>, <<Table("orders", "")>>,
           Where("where", Eq(ColName("", "user_id"), IntLit(1))), <<>>, NilWhere,
           <<Order(ColName("", "created"), "desc")>>, Limit(NilNode, IntLit(1)))

\* statements with a subquery in WHERE and in a JOIN's ON
Subqueries ==
    { \* SELECT * FROM users WHERE x IN (SELECT y FROM u WHERE z = 1 LIMIT 2) AND age = 1
      Simple(<<StarExpr("")>>, Users,
             Where("where", AndExpr(ComparisonExpr(ColName("", "x"), "in", Subquery(SomeY)),
                                    Eq(ColName("", "age"), IntLit(1)))),
             NilLimit),
      \* SELECT * FROM users AS u JOIN orders AS o ON u.id = (SELECT user_id ... LIMIT 1)
      Simple(<<StarExpr("")>>,
             <<JoinTableExpr(Table("users", "u"), "join", Table("orders", "o"),
                             Eq(ColName("u", "id"), Subquery(LastOrder)))>>,
             NilWhere, NilLimit) }

\* age > n
AgeOver(n) == ComparisonExpr(ColName("", "age"), ">", IntLit(n))

\* statements with a CASE of two WHEN clauses and with a comparison as select items
Cases ==
    { \* SELECT CASE WHEN age > 2 THEN 'x' WHEN age > 1 THEN 'y' ELSE 'z' END AS bracket
      \* FROM users
      Simple(<<AliasedExpr(CaseExpr(NilNode,
                                    <<When(AgeOver(2), Str(<<"x">>)),
                                      When(AgeOver(1), Str(<<"y">>))>>,
                                    Str(<<"z">>)), "bracket")>>,
             Users, NilWhere, NilLimit),
      \* SELECT CASE status WHEN 1 THEN 'x' WHEN 2 THEN 'y' ELSE 'z' END AS label FROM users
      Simple(<<AliasedExpr(CaseExpr(ColName("", "status"),
                                    <<When(IntLit(1), Str(<<"x">>)),
                                      When(IntLit(2), Str(<<"y">>))>>,
                                    Str(<<"z">>)), "label")>>,
             Users, NilWhere, NilLimit),
      \* SELECT age > 1 AS adult FROM users
      Simple(<<AliasedExpr(AgeOver(1), "adult")>>, Users, NilWhere, NilLimit) }

\* statements with an OR whose left side is an AND of two predicates
Disjunctions ==
    { \* SELECT * FROM users WHERE age > 1 AND age < 3 OR name = 'x'
      Simple(<<StarExpr("")>>, Users,
             Where("where", OrExpr(AndExpr(AgeOver(1),
                                           ComparisonExpr(ColName("", "age"), "<", IntLit(3))),
                                   Eq(ColName("", "name"), Str(PlainText)))),
             NilLimit),
      \* SELECT * FROM users WHERE age > 1 AND score < 3 OR name = 'x'
      Simple(<<StarExpr("")>>, Users,
             Where("where", OrExpr(AndExpr(AgeOver(1),
                                           ComparisonExpr(ColName("", "score"), "<", IntLit(3))),
                                   Eq(ColName("", "name"), Str(PlainText)))),
             NilLimit) }

\* SELECT * FROM users WHERE score [NOT] BETWEEN 0 AND 2
Ranges ==
    { Simple(<<StarExpr("")>>, Users,
             Where("where", RangeCond(ColName("", "score"), operator, IntLit(0), IntLit(2))),
             NilLimit) : operator \in {"between", "not between"} }

Fixtures ==
    OddOperands \cup OtherShapes \cup Lists \cup Counts \cup Literals \cup Joins
        \cup Conjunctions \cup Subqueries \cup Cases \cup Disjunctions \cup Ranges

Statements ==
    { Select(d, s, f, w, g.groupBy, g.having, o, l) :
        d \in {"", "distinct "}, s \in SelectLists, f \in FromClauses, w \in Wheres,
        g \in Groupings, o \in Orderings, l \in Limits }
      \cup Fixtures

\* "SELECT * FROM", "SELEC name FROM users" and the empty text
SyntaxErrors ==
    { "syntax error at position 14",
      "syntax error at position 6 near 'SELEC'",
      "syntax error at position 1" }

Inputs ==
    {[ast |-> a, err |-> NoErr] : a \in Statements}
        \cup {[ast |-> NilNode, err |-> e] : e \in SyntaxErrors}

-----------------------------------------------------------------------------
(* Build, step by step *)

Init ==
    /\ input \in Inputs
    /\ stmt = NilNode
    /\ q = NewQuery
    /\ err = NoErr
    /\ todo = <<>>
    /\ pc = "parse"

\* parseSQL that drops the parser's error and goes on to finalizeQuery
ParseSQLDroppingError ==
    /\ pc = "parse"
    /\ stmt' = input.ast
    /\ err' = NoErr
    /\ pc' = "walk"
    /\ todo' = IF input.err # NoErr THEN <<>> ELSE Nodes(input.ast, NilNode)
    /\ UNCHANGED <<input, q>>

\* parseSQL up to the start of the walk: a syntax error is returned as it is
\* (errnie.Error hands the error back), with nothing walked or finalised
ParseSQL ==
    /\ pc = "parse"
    /\ stmt' = input.ast
    /\ IF input.err # NoErr
       THEN /\ err' = input.err
            /\ pc' = "done"
            /\ todo' = <<>>
       ELSE /\ err' = NoErr
            /\ pc' = "walk"
            /\ todo' = Nodes(input.ast, NilNode)
    /\ UNCHANGED <<input, q>>

\* the walk is at a node of the given type
Visiting(kinds) ==
    /\ pc = "walk"
    /\ todo # <<>>
    /\ Head(todo).node.k \in kinds

\* the visitor returns with plan q1 and the walk moves on; a panic ends Build
Visited(q1) ==
    /\ q' = q1
    /\ todo' = Tail(todo)
    /\ pc' = IF q1.Panic THEN "panic" ELSE "walk"
    /\ UNCHANGED <<input, stmt, err>>

VisitTableName ==
    /\ Visiting({"TableName"})
    /\ Visited(parseTable(q, Head(todo).node))

VisitSelect ==
    /\ Visiting({"Select"})
    /\ Visited(handleSelectNode(q, Head(todo).node))

\* the select items taken in either order, as a loop over a map would
VisitSelectExprsInAnyOrder ==
    /\ Visiting({"SelectExprs"})
    /\ \E exprs \in {Head(todo).node.Exprs,
                      [i \in 1..Len(Head(todo).node.Exprs) |->
                          Head(todo).node.Exprs[Len(Head(todo).node.Exprs) + 1 - i]]} :
          Visited(parseSelect(q, exprs, [i \in 1..Len(exprs) |-> subqueryBuild(exprs[i])]))

VisitSelectExprs ==
    /\ Visiting({"SelectExprs"})
    /\ Visited(parseSelect(q, Head(todo).node.Exprs, subqueryBuilds(Head(todo))))

VisitWhere ==
    /\ Visiting({"Where"})
    /\ Visited(parseWhere(q, Head(todo).node))

VisitLimit ==
    /\ Visiting({"Limit"})
    /\ Visited(parseLimit(q, Head(todo).node))

VisitFuncExpr ==
    /\ Visiting({"FuncExpr"})
    /\ Visited(parseFunc(q, Head(todo).node, Head(todo).parent))

VisitJoinTableExpr ==
    /\ Visiting({"JoinTableExpr"})
    /\ Visited(parseJoin(q, Head(todo).node))

VisitAliasedExpr ==
    /\ Visiting({"AliasedExpr"})
    /\ Visited(handleAliasedExpr(q, Head(todo).node, subqueryBuilds(Head(todo))[1]))

\* case sqlparser.TableExprs: no-op
VisitTableExprs ==
    /\ Visiting({"TableExprs"})
    /\ Visited(q)

\* the default case: the type is noted in unhandledTypes, the plan is untouched
VisitUnhandled ==
    /\ Visiting({"Comments", "ColIdent", "TableIdent", "GroupBy", "OrderBy", "Order", "Exprs",
                 "StarExpr", "ColName", "SQLVal", "AliasedTableExpr", "Partitions",
                 "IndexHints", "JoinCondition", "Columns", "ComparisonExpr", "AndExpr",
                 "OrExpr", "ParenExpr", "IsExpr", "RangeCond", "ValTuple", "CaseExpr", "When",
                 "Subquery", "Delete", "TableNames", "ParenTableExpr"})
    /\ Visited(q)

FinalizeQuery ==
    /\ pc = "walk"
    /\ todo = <<>>
    /\ q' = finalizeQuery(q, stmt)
    /\ err' = NoErr
    /\ pc' = "done"
    /\ UNCHANGED <<input, stmt, todo>>

Next ==
    \/ ParseSQL
    \/ VisitTableName
    \/ VisitSelect
    \/ VisitSelectExprs
    \/ VisitWhere
    \/ VisitLimit
    \/ VisitFuncExpr
    \/ VisitJoinTableExpr
    \/ VisitAliasedExpr
    \/ VisitTableExprs
    \/ VisitUnhandled
    \/ FinalizeQuery

Spec == Init /\ [][Next]_vars

-----------------------------------------------------------------------------
(* request.go: the handlers of the query parameters.  A handler's result is
   the plan it leaves and the error it returns. *)

\* a time.Time, as seconds since the epoch
Time(unix) == [t |-> "time", unix |-> unix]

\* the first of the three layouts that parses the value; of the texts
\* explored, two denote 2024-01-02 03:04:05 UTC
parseTimeWithFormats(value) ==
    CASE value = "2024-01-02T03:04:05Z" -> [t |-> Time(1704164645), err |-> NoErr]
      [] value = "2024-01-02 03:04:05" -> [t |-> Time(1704164645), err |-> NoErr]
      [] OTHER -> [t |-> Time(0), err |-> "unable to parse time"]

\* day and month of a DD-MM text
parseBirthDayFormat(value) ==
    LET dash == CHOOSE i \in 1..Len(value) : value[i] = "-"
        day == Atoi(SubSeq(value, 1, dash - 1))
        month == Atoi(SubSeq(value, dash + 1, Len(value)))
    IN  IF Count(value, "-") # 1 THEN [day |-> <<"0">>, month |-> <<"0">>,
                                       err |-> "invalid birthday format"]
        ELSE IF ~day.ok THEN [day |-> <<"0">>, month |-> <<"0">>, err |-> "invalid day format"]
        ELSE IF ~month.ok THEN [day |-> day.n, month |-> <<"0">>, err |-> "invalid month format"]
        ELSE [day |-> day.n, month |-> month.n, err |-> NoErr]

handleVisibleAt(q0, values) ==
    LET parsed == parseTimeWithFormats(values)
        windowStart == Time(parsed.t.unix - 15 * 60)
    IN  IF parsed.err # NoErr THEN [q |-> q0, err |-> parsed.err]
        ELSE [q |-> [q0 EXCEPT !.Filter =
                        Append(@, E("VisibleAt", M2("$lte", parsed.t, "$gte", windowStart)))],
              err |-> NoErr]

handleBirthDay(q0, values) ==
    LET parsed == parseBirthDayFormat(values)
    IN  IF parsed.err # NoErr THEN [q |-> q0, err |-> parsed.err]
        ELSE [q |-> [q0 EXCEPT !.Filter = Append(@, E("$expr", M1("$and",
                        << M1("$eq", <<M1("$month", NameV("$BirthDay")), IntV(parsed.month)>>),
                           M1("$eq", <<M1("$dayOfMonth", NameV("$BirthDay")),
                                       IntV(parsed.day)>>) >>)))],
              err |-> NoErr]

buildAccountPipeline(uid) ==
    << E("$lookup", [t |-> "M", d |-> <<E("from", NameV("User")),
                                        E("localField", NameV("UserId")),
                                        E("foreignField", NameV("_id")),
                                        E("as", NameV("User"))>>]),
       E("$unwind", NameV("$User")),
       E("$lookup", [t |-> "M", d |-> <<E("from", NameV("Account")),
                                        E("localField", NameV("User.Accounts")),
                                        E("foreignField", NameV("_id")),
                                        E("as", NameV("AccountDetails"))>>]),
       E("$match", [t |-> "M", d |->
            <<E("User.Accounts", M1("$in", <<uid>>)),
              E("User.Deleted", NilV),
              E("AccountDetails", M1("$elemMatch",
                    M2("_id", uid, "Modules", M1("$in", <<IntV(<<"1", "4">>)>>))))>>]),
       E("$project", [t |-> "M", d |-> <<E("_id", IntV(<<"1">>)),
                                         E("PushToken", IntV(<<"1">>)),
                                         E("User.Accounts", IntV(<<"1">>))>>]) >>

handleAccountId(q0, values) ==
    LET uid == CSUUID(values)
    IN  IF uid.panic THEN [q |-> Panic(q0), err |-> NoErr]
        ELSE IF uid.err # NoErr THEN [q |-> q0, err |-> uid.err]
        ELSE [q |-> [q0 EXCEPT !.Operation = "aggregate",
                               !.Collection = "Device",
                               !.Pipeline = buildAccountPipeline(uid.binval)],
              err |-> NoErr]

handleLeaveDate(q0, values) ==
    IF values = "2024-01-02"      \* time.Parse("2006-01-02", values)
    THEN [q |-> [q0 EXCEPT !.Filter =
                    Append(@, E("LeaveDate", M2("$gte", Time(1704153600),
                                                "$lt", Time(1704153600 + 24 * 3600))))],
          err |-> NoErr]
    ELSE [q |-> q0, err |-> "invalid date format for LeaveDate"]

handleGroups(q0, values) ==
    LET uid == CSUUID(values)
    IN  IF uid.panic THEN [q |-> Panic(q0), err |-> NoErr]
        ELSE IF uid.err # NoErr THEN [q |-> q0, err |-> uid.err]
        ELSE [q |-> [q0 EXCEPT !.Filter =
                        Append(@, E("Groups._id", M1("$in", <<uid.binval>>)))],
              err |-> NoErr]

\* stmt.Build(query) on the plan as the earlier parameters have left it
handleSQLQuery(values, q0) ==
    IF values.err # NoErr THEN [q |-> q0, err |-> values.err]
    ELSE LET q1 == Walk(q0, Nodes(values.ast, NilNode))
         IN  [q |-> IF q1.Panic THEN q1 ELSE finalizeQuery(q1, values.ast), err |-> NoErr]

-----------------------------------------------------------------------------
(* The requests explored.  A parameter's value is a text (text), a text
   spelled out character by character (chars) or the text of a statement,
   given as in Inputs. *)

Absent == [absent |-> TRUE]
Text(s) == [text |-> s]
Chars(c) == [chars |-> c]

\* the positions of the hex digits in the 8-4-4-4-12 form
HexPositions == (1..36) \ {9, 14, 19, 24}

\* canonical UUID texts, bare and in braces: one given UUID and the texts that
\* differ from it in one hex digit
CanonicalUUIDs ==
    LET bare == {[UUIDText EXCEPT ![p] = c] : p \in HexPositions, c \in {"0", "a", "F"}}
    IN  bare \cup {<<"{">> \o u \o <<"}">> : u \in bare}

\* texts that are not UUIDs: empty, one group only, 18 and 34 hex digits, an
\* odd number of hex digits, a letter that is no hex digit
MalformedUUIDs ==
    { <<>>,
      SubSeq(UUIDText, 1, 8),
      SubSeq(UUIDText, 1, 20),
      UUIDText \o <<"0", "0">>,
      SubSeq(UUIDText, 1, 35),
      [UUIDText EXCEPT ![36] = "g"] }

\* the largest number of parameters of a request with several parameters
MaxParams == 3

\* ctx.Queries(): the parameters that are present
Queries(sql, visibleAt, birthDay, accountId, groups, leaveDate, name) ==
    LET all == ("sql" :> sql) @@ ("VisibleAt" :> visibleAt) @@ ("BirthDay" :> birthDay)
                 @@ ("AccountId" :> accountId) @@ ("groups" :> groups)
                 @@ ("LeaveDate" :> leaveDate) @@ ("name" :> name)
    IN  [key \in {k \in DOMAIN all : all[k] # Absent} |-> all[key]]

ParameterSets ==
    { f \in { Queries(sql, visibleAt, birthDay, accountId, groups, leaveDate, name) :
                sql \in {Absent,
                         [ast |-> Simple(<<Col("name")>>, Users, NilWhere, NilLimit),
                          err |-> NoErr],
                         [ast |-> NilNode, err |-> "syntax error at position 14"]},
                visibleAt \in {Absent, Text("2024-01-02T03:04:05Z"), Text("yesterday")},
                birthDay \in {Absent, Chars(<<"0", "2", "-", "0", "1">>), Chars(<<"x">>)},
                accountId \in {Absent, Chars(UUIDText)},
                groups \in {Absent, Chars(UUIDText)},
                leaveDate \in {Absent, Text("2024-01-02"), Text("tomorrow")},
                name \in {Absent, Text("x")} } :
        Cardinality(DOMAIN f) <= MaxParams }
      \cup {"groups" :> Chars(u) : u \in CanonicalUUIDs \cup MalformedUUIDs}
      \cup {"AccountId" :> Chars(u) : u \in MalformedUUIDs}
      \cup {"VisibleAt" :> Text("2024-01-02 03:04:05")}

\* a request: its query parameters and its path parameters
Requests ==
    {[params |-> f, operation |-> "find", collection |-> "devices"] : f \in ParameterSets}

-----------------------------------------------------------------------------
(* ParseRequest, one parameter at a time.  todo is the set of parameters the
   range over ctx.Queries() has not yet reached: a Go map is ranged over in
   any order.  pc is "query" when ParseRequest has returned the plan and
   "nil" when it has returned nil. *)

RequestInit ==
    /\ input \in Requests
    /\ stmt = NilNode
    /\ q = NewQuery
    /\ err = NoErr
    /\ todo = DOMAIN input.params
    /\ pc = "range"

Ranging(key) ==
    /\ pc = "range"
    /\ key \in todo

\* the case of the key has run with result r
Handled(key, r) ==
    /\ q' = r.q
    /\ err' = r.err
    /\ todo' = todo \ {key}
    /\ pc' = IF r.q.Panic THEN "panic" ELSE IF r.err # NoErr THEN "nil" ELSE "range"
    /\ UNCHANGED <<input, stmt>>

HandleSQL ==
    /\ Ranging("sql")
    /\ LET r == handleSQLQuery(input.params["sql"], q)
       IN  /\ q' = r.q
           /\ err' = r.err
           /\ pc' = IF r.q.Panic THEN "panic" ELSE IF r.err # NoErr THEN "nil" ELSE "query"
    /\ stmt' = input.params["sql"].ast
    /\ todo' = todo \ {"sql"}
    /\ UNCHANGED input

HandleVisibleAt ==
    /\ Ranging("VisibleAt")
    /\ Handled("VisibleAt", handleVisibleAt(q, input.params["VisibleAt"].text))

HandleBirthDay ==
    /\ Ranging("BirthDay")
    /\ Handled("BirthDay", handleBirthDay(q, input.params["BirthDay"].chars))

HandleAccountId ==
    /\ Ranging("AccountId")
    /\ Handled("AccountId", handleAccountId(q, input.params["AccountId"].chars))

HandleGroups ==
    /\ Ranging("groups")
    /\ Handled("groups", handleGroups(q, input.params["groups"].chars))

HandleLeaveDate ==
    /\ Ranging("LeaveDate")
    /\ Handled("LeaveDate", handleLeaveDate(q, input.params["LeaveDate"].text))

\* default: the parameter is an equality filter
HandleOther ==
    /\ \E key \in todo \ {"sql", "VisibleAt", "BirthDay", "AccountId", "groups", "LeaveDate"} :
          /\ Ranging(key)
          /\ Handled(key, [q |-> [q EXCEPT !.Filter =
                                     Append(@, E(key, NameV(input.params[key].text)))],
                           err |-> NoErr])

\* after the loop: Operation and Collection default to the path parameters
EndOfRange ==
    /\ pc = "range"
    /\ todo = {}
    /\ q' = [q EXCEPT !.Operation = IF @ = "" THEN input.operation ELSE @,
                      !.Collection = IF @ = "" THEN input.collection ELSE @]
    /\ pc' = "query"
    /\ UNCHANGED <<input, stmt, err, todo>>

ParseRequest ==
    \/ HandleSQL
    \/ HandleVisibleAt
    \/ HandleBirthDay
    \/ HandleAccountId
    \/ HandleGroups
    \/ HandleLeaveDate
    \/ HandleOther
    \/ EndOfRange

RequestSpec == RequestInit /\ [][ParseRequest]_vars

-----------------------------------------------------------------------------
(* Properties of the plan Build returns *)

\* Build has returned a plan with a nil error
Returned == pc = "done" /\ err = NoErr

\* C1: whenever Build returns a nil error and the plan's Operation is find,
\* findone, count or distinct, the plan's Pipeline is empty.
PipelineEmptyUnlessAggregate ==
    (Returned /\ q.Operation \in {"find", "findone", "count", "distinct"})
        => q.Pipeline = <<>>

\* C2: once a step of Build has set Operation to aggregate, no later step of
\* the same Build changes it.
AggregateIsTerminal ==
    [][q.Operation = "aggregate" => q'.Operation = "aggregate"]_vars

\* C3: a returned plan whose Operation is aggregate has empty flat fields:
\* no Filter, Projection or Sort entry, Limit and Offset unset.
AggregateFlatFieldsEmpty ==
    (Returned /\ q.Operation = "aggregate")
        => /\ q.Filter = <<>>
           /\ q.Projection = <<>>
           /\ q.Sort = <<>>
           /\ q.Limit = <<>>
           /\ q.Offset = <<>>

\* the first and the last class of the canonical order a stage can belong to:
\* 1 $lookup/$unwind, 2 $match of WHERE, 3 $group, 4 $match of HAVING,
\* 5 $project, 6 $sort, 7 $limit, 8 $skip; a stage outside the list fits anywhere
firstClass(key) ==
    CASE key \in {"$lookup", "$unwind"} -> 1
      [] key = "$match" -> 2
      [] key = "$group" -> 3
      [] key = "$project" -> 5
      [] key = "$sort" -> 6
      [] key = "$limit" -> 7
      [] key = "$skip" -> 8
      [] OTHER -> 0

lastClass(key) ==
    CASE key = "$match" -> 4
      [] firstClass(key) = 0 -> 9
      [] OTHER -> firstClass(key)

\* C4: in a returned aggregate plan no stage of a later class of the canonical
\* order ($lookup/$unwind, $match, $group, $match, $project, $sort, $limit,
\* $skip) precedes a stage of an earlier class.
PipelineInCanonicalOrder ==
    (Returned /\ q.Operation = "aggregate")
        => \A i, j \in 1..Len(q.Pipeline) :
              i < j => firstClass(q.Pipeline[i].Key) <= lastClass(q.Pipeline[j].Key)

\* C5: a returned plan whose Operation is findone has Limit set, equal to 1.
FindOneHasLimitOne ==
    (Returned /\ q.Operation = "findone") => q.Limit = << <<"1">> >>

\* a SELECT item that needs the aggregation framework
isComplexItem(item) ==
    /\ item.k = "AliasedExpr"
    /\ item.Expr.k \in {"CaseExpr", "AndExpr", "OrExpr", "ComparisonExpr", "Subquery"}

\* the statement has a GROUP BY, a HAVING, an ORDER BY, several FROM tables,
\* a JOIN or a complex SELECT item
needsAggregation(sel) ==
    /\ sel.k = "Select"
    /\ \/ Len(sel.GroupBy) > 0
       \/ sel.Having # NilWhere
       \/ Len(sel.OrderBy) > 0
       \/ Len(sel.From) > 1
       \/ \E i \in 1..Len(sel.From) : sel.From[i].k = "JoinTableExpr"
       \/ \E i \in 1..Len(sel.SelectExprs) : isComplexItem(sel.SelectExprs[i])

\* C6: after Build of a SELECT with a GROUP BY, HAVING, ORDER BY, several FROM
\* tables, a JOIN or a complex SELECT item, an Operation that is not count is
\* aggregate, whatever the LIMIT.
ComplexStatementIsAggregate ==
    (Returned /\ needsAggregation(stmt) /\ q.Operation # "count")
        => q.Operation = "aggregate"

\* the values the filter document d gives for _id, inside $or branches too
idValues(d) ==
    {d[i].Value : i \in {n \in 1..Len(d) : d[n].Key = "_id"}}
        \cup UNION { UNION { {m.d[k].Value : k \in {n \in 1..Len(m.d) : m.d[n].Key = "_id"}} :
                              m \in {d[i].Value.a[b] : b \in 1..Len(d[i].Value.a)} } :
                     i \in {n \in 1..Len(d) : d[n].Key = "$or"} }

\* C7: every WHERE comparison on _id emits a Binary of subtype 3 with 16
\* bytes when the collection's name starts with an uppercase letter, and the
\* literal as a string when it does not.
IdComparisonFollowsCollectionCase ==
    Returned =>
        \A v \in idValues(q.Filter) :
            IF IsUpper0(q.Collection)
            THEN v.t = "binary" /\ v.Subtype = 3 /\ Len(v.Data) = 16
            ELSE v.t = "string"

\* C8: on a syntax error Build returns the parser's error and the plan as it
\* was given: no translator has run on it.
SyntaxErrorLeavesPlanUntouched ==
    (pc # "parse" /\ input.err # NoErr)
        => /\ pc = "done"
           /\ err = input.err
           /\ q = NewQuery
           /\ todo = <<>>

\* Build has returned from a statement with a syntax error
SyntaxErrorReturned == pc = "done" /\ input.err # NoErr /\ err = input.err

\* the functions a SELECT item may call
supportedFunctions == {"count", "sum", "avg", "min", "max", "distinct"}

callsUnknownFunction(sel) ==
    /\ sel.k = "Select"
    /\ \E i \in 1..Len(sel.SelectExprs) :
        /\ sel.SelectExprs[i].k = "AliasedExpr"
        /\ sel.SelectExprs[i].Expr.k = "FuncExpr"
        /\ Lowered(sel.SelectExprs[i].Expr.Name) \notin supportedFunctions

\* C9: when the SELECT list calls an unsupported function, Build returns a
\* non-nil error with the partial plan: Operation aggregate, Collection set,
\* Pipeline empty.
UnknownFunctionIsAnError ==
    (pc = "done" /\ input.err = NoErr /\ callsUnknownFunction(stmt))
        => /\ err # NoErr
           /\ q.Operation = "aggregate"
           /\ q.Collection # ""
           /\ q.Pipeline = <<>>

\* the AND-conjuncts of a WHERE expression
RECURSIVE conjuncts(_)
conjuncts(expr) ==
    CASE expr.k = "AndExpr" -> conjuncts(expr.Left) \cup conjuncts(expr.Right)
      [] expr.k = "ParenExpr" -> conjuncts(expr.Expr)
      [] OTHER -> {expr}

\* the Filter key under which a conjunct's entry would appear
conjunctKey(c) ==
    CASE c.k = "ComparisonExpr" /\ c.Left.k = "ColName" -> getQualifiedName(c.Left)
      [] c.k = "IsExpr" /\ c.Expr.k = "ColName" -> getQualifiedName(c.Expr)
      [] c.k = "OrExpr" -> "$or"
      [] OTHER -> ""

\* C10: when Build returns a nil error, every AND-conjunct of the WHERE clause
\* has produced an entry in the plan (an untranslatable one is an error).
UntranslatedConjunctIsAnError ==
    (Returned /\ stmt.Where # NilWhere)
        => \A c \in conjuncts(stmt.Where.Expr) :
              \E i \in 1..Len(q.Filter) : q.Filter[i].Key = conjunctKey(c)

\* C11: Build never panics: every statement that parses ends with a returned
\* (plan, error) pair.
BuildNeverPanics == pc # "panic"

\* C12: whenever Build returns a nil error, the plan's Collection is a
\* non-empty string.
ReturnedPlanHasCollection == Returned => q.Collection # ""

-----------------------------------------------------------------------------
(* Properties of CSUUID and of ParseRequest *)

\* the request has the one parameter key, and its case has run
OnlyParameterHandled(key) ==
    /\ DOMAIN input.params = {key}
    /\ todo = {}

\* the byte written as the i-th pair of hex digits of a UUID text
ByteOfText(uuid, i) ==
    LET digits == SelectSeq(uuid, IsHex)
    IN  16 * HexDigitVal(digits[2 * i - 1]) + HexDigitVal(digits[2 * i])

\* the bytes b0..b15 of a UUID text in the order b3 b2 b1 b0 b5 b4 b7 b6 b8..b15
LegacyOrder(uuid) ==
    [i \in 1..16 |-> ByteOfText(uuid, <<4, 3, 2, 1, 6, 5, 8, 7, 9, 10, 11, 12, 13, 14, 15, 16>>[i])]

\* C14: CSUUID on a canonical UUID text, bare or in braces, returns a nil
\* error and a Binary of subtype 3 whose Data is the 16 bytes of the text in
\* the order b3 b2 b1 b0 b5 b4 b7 b6 b8..b15 (seen in the filter that
\* handleGroups builds from CSUUID's result).
CSUUIDOfCanonicalUUID ==
    (/\ OnlyParameterHandled("groups")
     /\ input.params["groups"].chars \in CanonicalUUIDs)
        => /\ pc \in {"range", "query"}
           /\ err = NoErr
           /\ q.Filter = <<E("Groups._id",
                             M1("$in", <<[t |-> "binary", Subtype |-> 3,
                                          Data |-> LegacyOrder(input.params["groups"].chars)]>>))>>

\* a UUID text in braces has been converted
BracedUUIDConverted ==
    /\ OnlyParameterHandled("groups")
    /\ input.params["groups"].chars \in CanonicalUUIDs
    /\ Head(input.params["groups"].chars) = "{"
    /\ pc = "query"
    /\ Len(q.Filter) = 1

\* C15: CSUUID on a text that is no UUID (too short, too long, or with a
\* character that is no hex digit once braces and hyphens are stripped)
\* returns a non-nil error to its caller, so ParseRequest returns nil; a nil
\* error never comes with a Binary whose Data is not 16 bytes.
CSUUIDRejectsMalformedUUID ==
    \A key \in {"groups", "AccountId"} :
        (/\ OnlyParameterHandled(key)
         /\ input.params[key].chars \in MalformedUUIDs)
            => /\ pc = "nil"
               /\ err # NoErr

\* an unaliased COUNT(*) or COUNT(t.*) among the select items
isCountOfRows(item) ==
    /\ item.k = "AliasedExpr"
    /\ item.Expr.k = "FuncExpr"
    /\ Lowered(item.Expr.Name) = "count"
    /\ ~item.Expr.Distinct
    /\ Len(item.Expr.Exprs) = 1
    /\ item.Expr.Exprs[1].k = "StarExpr"

\* C16: a SELECT without GROUP BY whose only select item is an unaliased
\* COUNT(*) or COUNT(t.*) is returned with Operation count; when the COUNT
\* has an alias or sibling select items the Operation is aggregate.
SoleCountIsCount ==
    (Returned /\ stmt.k = "Select" /\ stmt.GroupBy = <<>>)
        => /\ (/\ Len(stmt.SelectExprs) = 1
               /\ isCountOfRows(stmt.SelectExprs[1])
               /\ stmt.SelectExprs[1].As = "") => q.Operation = "count"
           /\ (\E i \in 1..Len(stmt.SelectExprs) :
                  /\ isCountOfRows(stmt.SelectExprs[i])
                  /\ (stmt.SelectExprs[i].As # "" \/ Len(stmt.SelectExprs) > 1))
                    => q.Operation = "aggregate"

\* C17: when the query parameters of a request hold the key sql, ParseRequest
\* returns exactly the plan Build yields for the sql value (nil on Build's
\* error), whatever the other parameters are and in whatever order the
\* parameters are ranged over.
ParseRequestOfSQLIsBuild ==
    ("sql" \in DOMAIN input.params /\ pc \in {"query", "nil", "panic"})
        => IF input.params["sql"].err = NoErr
           THEN pc = "query" /\ q = Build(input.params["sql"].ast).q
           ELSE pc = "nil"

\* C18: an integer literal that does not fit in 64 bits is emitted as its
\* original text, a string, and the predicate that holds it is still emitted:
\* WHERE age = 9223372036854775808 is returned as the filter
\* {age: "9223372036854775808"}.
OverflowingLiteralKeptAsText ==
    (/\ Returned
     /\ stmt.k = "Select"
     /\ stmt.Where # NilWhere
     /\ stmt.Where.Expr = Eq(ColName("", "age"), TooLarge))
        => q.Filter = <<E("age", StrV(TooLarge.Val))>>

\* the tables joined by the JOIN clauses of a FROM entry, in the order in
\* which the clauses are written
RECURSIVE joinedTables(_)
joinedTables(expr) ==
    IF expr.k = "JoinTableExpr"
    THEN joinedTables(expr.LeftExpr) \o <<expr.RightExpr.Expr.Name>>
    ELSE <<>>

IsLookupStage(stage) == stage.Key = "$lookup"

\* the collections the $lookup stages of a pipeline read, in pipeline order
lookupsFrom(pipeline) ==
    LET lookups == SelectSeq(pipeline, IsLookupStage)
    IN  [i \in 1..Len(lookups) |-> lookups[i].Value.d[1].Value.id]

\* C19: for a statement with several JOIN clauses the $lookup/$unwind pairs
\* stand in the Pipeline in the source order of the clauses: the pair of the
\* JOIN written first comes first.
JoinsInSourceOrder ==
    (/\ Returned
     /\ stmt.k = "Select"
     /\ Len(stmt.From) = 1
     /\ Len(joinedTables(stmt.From[1])) > 1)
        => lookupsFrom(q.Pipeline) = joinedTables(stmt.From[1])

\* JOIN r ON l.a = r.b with two plain tables
isPlainJoin(expr) ==
    /\ expr.k = "JoinTableExpr"
    /\ expr.LeftExpr.k = "AliasedTableExpr"
    /\ expr.RightExpr.k = "AliasedTableExpr"
    /\ expr.On.k = "ComparisonExpr"
    /\ expr.On.Operator = "="
    /\ expr.On.Left.k = "ColName"
    /\ expr.On.Right.k = "ColName"

\* a $unwind stage on the path, with or without preserveNullAndEmptyArrays: true
isUnwindOn(stage, path, preserve) ==
    /\ stage.Key = "$unwind"
    /\ IF preserve
       THEN stage.Value = [t |-> "M", d |-> <<E("path", NameV(path)),
                                             E("preserveNullAndEmptyArrays",
                                               [t |-> "bool", b |-> TRUE])>>]
       ELSE stage.Value \in {NameV(path), M1("path", NameV(path)),
                             [t |-> "M", d |-> <<E("path", NameV(path)),
                                                 E("preserveNullAndEmptyArrays",
                                                   [t |-> "bool", b |-> FALSE])>>]}

\* C20: a JOIN r ON l.a = r.b appends to the Pipeline the stage
\* $lookup {from: r, localField: a, foreignField: b, as: r}, immediately
\* followed by a $unwind on $r that carries preserveNullAndEmptyArrays: true
\* if and only if the JOIN is a LEFT JOIN.
JoinIsLookupThenUnwind ==
    (/\ Returned
     /\ stmt.k = "Select"
     /\ Len(stmt.From) = 1
     /\ isPlainJoin(stmt.From[1]))
        => \E i \in 1..(Len(q.Pipeline) - 1) :
              /\ q.Pipeline[i] =
                    E("$lookup", [t |-> "M", d |->
                        <<E("from", NameV(stmt.From[1].RightExpr.Expr.Name)),
                          E("localField", NameV(stmt.From[1].On.Left.Name)),
                          E("foreignField", NameV(stmt.From[1].On.Right.Name)),
                          E("as", NameV(stmt.From[1].RightExpr.Expr.Name))>>])
              /\ isUnwindOn(q.Pipeline[i + 1], "$" \o stmt.From[1].RightExpr.Expr.Name,
                            stmt.From[1].Join = "left join")

\* the AND-conjuncts of a WHERE expression from left to right, parentheses
\* unwrapped
RECURSIVE conjunctSeq(_)
conjunctSeq(expr) ==
    CASE expr.k = "AndExpr" -> conjunctSeq(expr.Left) \o conjunctSeq(expr.Right)
      [] expr.k = "ParenExpr" -> conjunctSeq(expr.Expr)
      [] OTHER -> <<expr>>

\* the Filter key of a conjunct, also of a range
sourceKey(c) ==
    IF c.k = "RangeCond" /\ c.Left.k = "ColName" THEN c.Left.Name ELSE conjunctKey(c)

\* keys is keys of some of the conjuncts cs, in their order
RECURSIVE InSourceOrder(_, _)
InSourceOrder(keys, cs) ==
    IF keys = <<>> THEN TRUE
    ELSE IF cs = <<>> THEN FALSE
    ELSE IF Head(keys) = sourceKey(Head(cs)) /\ InSourceOrder(Tail(keys), Tail(cs)) THEN TRUE
    ELSE InSourceOrder(keys, Tail(cs))

IsOrExpr(c) == c.k = "OrExpr"
IsOrEntry(e) == e.Key = "$or"

\* C21: for a flat query (find, findone) the Filter entries stand in the
\* source order of the WHERE clause's AND-conjuncts, parentheses unwrapped,
\* and each OR among the conjuncts gives exactly one entry, with key $or and
\* an array of two elements, at the position of that OR.
FilterInSourceOrder ==
    (/\ Returned
     /\ stmt.k = "Select"
     /\ stmt.Where # NilWhere
     /\ q.Operation \in {"find", "findone"})
        => /\ InSourceOrder([i \in 1..Len(q.Filter) |-> q.Filter[i].Key],
                            conjunctSeq(stmt.Where.Expr))
           /\ Len(SelectSeq(q.Filter, IsOrEntry))
                 = Len(SelectSeq(conjunctSeq(stmt.Where.Expr), IsOrExpr))
           /\ \A i \in 1..Len(q.Filter) :
                 q.Filter[i].Key = "$or" => Len(q.Filter[i].Value.a) = 2

\* the visit is of a node that a parent translator has lowered already: a
\* function call that is a select item (parseSelect), a select item that is
\* a scalar subquery (parseSelect) or a HAVING clause (parseGroupBy)
alreadyLowered(v) ==
    \/ v.node.k = "FuncExpr" /\ v.parent.k = "AliasedExpr"
    \/ v.node.k = "AliasedExpr" /\ subquerySelect(v.node.Expr) # NilNode
    \/ v.node.k = "Where" /\ v.node # NilWhere /\ v.node.Type = "having"

\* C22: a node is translated at most once per Build: the walker's visit of a
\* function call, scalar subquery or HAVING clause that a parent translator
\* has lowered already adds no pipeline stage and no filter entry.
LoweredNodeVisitIsNoOp ==
    [][(pc = "walk" /\ todo # <<>> /\ alreadyLowered(Head(todo)))
            => (q'.Pipeline = q.Pipeline /\ q'.Filter = q.Filter)]_vars

IsGroupStage(stage) == stage.Key = "$group"

\* a select item that is a call of an aggregate function
isAggregateItem(item) ==
    /\ item.k = "AliasedExpr"
    /\ item.Expr.k = "FuncExpr"
    /\ Lowered(item.Expr.Name) \in {"count", "sum", "avg", "min", "max"}

\* the operator a $group field carries for an aggregate function
aggregateOperator(name) == IF name = "count" THEN "$sum" ELSE "$" \o name

\* C23: a SELECT with GROUP BY is returned with exactly one $group stage in
\* the Pipeline: its _id maps each group-key column to "$col", it has a
\* $first field for each group key, and it has one field for each aggregate
\* function of the SELECT list, carrying that aggregate's operator.
GroupByYieldsOneGroupStage ==
    (Returned /\ stmt.k = "Select" /\ stmt.GroupBy # <<>>)
        => LET groups == SelectSeq(q.Pipeline, IsGroupStage)
               fields == groups[1].Value
           IN  /\ Len(groups) = 1
               /\ fields[1].Key = "_id"
               /\ \A g \in 1..Len(stmt.GroupBy) :
                     /\ \E j \in 1..Len(fields[1].Value.d) :
                           fields[1].Value.d[j] =
                               E(stmt.GroupBy[g].Name, NameV("$" \o stmt.GroupBy[g].Name))
                     /\ \E j \in 2..Len(fields) :
                           fields[j] = E(stmt.GroupBy[g].Name,
                                         M1("$first", NameV("$" \o stmt.GroupBy[g].Name)))
               /\ \A i \in 1..Len(stmt.SelectExprs) :
                     isAggregateItem(stmt.SelectExprs[i])
                        => \E j \in 2..Len(fields) :
                              fields[j].Value.d[1].Key =
                                  aggregateOperator(Lowered(stmt.SelectExprs[i].Expr.Name))

\* C24: the $match stage made from a HAVING clause stands after the $group
\* stages of the statement: in the returned Pipeline no $group stage follows
\* it, and its match field is a name under which a $group stage before it
\* emits the aggregate.
HavingMatchAfterGroups ==
    (Returned /\ stmt.k = "Select" /\ stmt.Having # NilWhere)
        => \A m \in 1..Len(q.Pipeline) :
              q.Pipeline[m].Key = "$match"
                => /\ \A g \in (m + 1)..Len(q.Pipeline) : q.Pipeline[g].Key # "$group"
                   /\ \E g \in 1..(m - 1) :
                         /\ q.Pipeline[g].Key = "$group"
                         /\ \E j \in 2..Len(q.Pipeline[g].Value) :
                               q.Pipeline[g].Value[j].Key = q.Pipeline[m].Value.d[1].Key

\* the first select item is an aliased CASE expression
isCaseItem(s) ==
    /\ s.k = "Select" /\ Len(s.SelectExprs) = 1
    /\ s.SelectExprs[1].k = "AliasedExpr"
    /\ s.SelectExprs[1].Expr.k = "CaseExpr"

isCond(v) == v.t = "D" /\ Len(v.d) = 1 /\ v.d[1].Key = "$cond"

\* the results of a ladder of $cond documents, outermost first, the innermost else last
RECURSIVE ladder(_)
ladder(v) ==
    IF isCond(v) THEN <<v.d[1].Value.d[2].Value>> \o ladder(v.d[1].Value.d[3].Value)
    ELSE <<v>>

\* C25: a CASE with n WHEN clauses becomes n nested $cond documents that test
\* the WHEN clauses in source order: the outermost $cond yields the result of
\* the first WHEN, the next one the result of the second, and the ELSE value
\* is the innermost else.
CaseTestsWhensInSourceOrder ==
    (Returned /\ isCaseItem(stmt) /\ err = "nil")
        => LET case == stmt.SelectExprs[1].Expr
               n == Len(case.Whens)
           IN  \E p \in 1..Len(q.Pipeline) :
                  /\ q.Pipeline[p].Key = "$project"
                  /\ q.Pipeline[p].Value[1].Key = stmt.SelectExprs[1].As
                  /\ ladder(q.Pipeline[p].Value[1].Value)
                        = [i \in 1..(n + 1) |->
                              IF i <= n THEN StrV(case.Whens[i].Val.Val)
                              ELSE StrV(case.Else.Val)]

\* the first select item is an aliased comparison of a column with a literal
isComparisonItem(s) ==
    /\ s.k = "Select" /\ Len(s.SelectExprs) = 1
    /\ s.SelectExprs[1].k = "AliasedExpr"
    /\ s.SelectExprs[1].Expr.k = "ComparisonExpr"
    /\ s.SelectExprs[1].Expr.Operator \in {"=", "!=", "<", "<=", ">", ">="}

pipelineOperator(op) ==
    CASE op = "=" -> "$eq"
      [] op = "!=" -> "$ne"
      [] op = "<" -> "$lt"
      [] op = "<=" -> "$lte"
      [] op = ">" -> "$gt"
      [] op = ">=" -> "$gte"

\* C26: a comparison a op b in the SELECT list is lowered to {$op: [lhs, rhs]},
\* a fragment that holds both the lowered left operand and the lowered right
\* operand.
ComparisonItemHoldsBothOperands ==
    (Returned /\ isComparisonItem(stmt))
        => LET item == stmt.SelectExprs[1]
           IN  \E p \in 1..Len(q.Pipeline) :
                  /\ q.Pipeline[p].Key = "$project"
                  /\ q.Pipeline[p].Value[1].Key = item.As
                  /\ q.Pipeline[p].Value[1].Value
                        = M1(pipelineOperator(item.Expr.Operator),
                             [t |-> "[]interface{}",
                              a |-> <<parseExpr(item.Expr.Left),
                                      parseExpr(item.Expr.Right)>>])

\* the visit is of the SELECT of a subquery or of one of its clauses
inSubquery(v) ==
    \/ v.node.k = "Select" /\ v.node # stmt
    \/ v.parent.k = "Select" /\ v.parent # stmt

\* C27: translating a subquery leaves the outer plan's Filter, Projection,
\* Limit, Offset and Collection unchanged: no visit of a subquery's SELECT,
\* WHERE, select items or LIMIT changes any of them.
SubqueryLeavesOuterPlan ==
    [][(pc = "walk" /\ todo # <<>> /\ inSubquery(Head(todo)))
            => /\ q'.Filter = q.Filter
               /\ q'.Projection = q.Projection
               /\ q'.Limit = q.Limit
               /\ q'.Offset = q.Offset
               /\ q'.Collection = q.Collection]_vars

\* a comparison of a column that is no ID field with a literal
plainComparison(c) ==
    /\ c.k = "ComparisonExpr"
    /\ c.Operator \in {"=", "!=", "<", "<=", ">", ">="}
    /\ c.Left.k = "ColName" /\ c.Left.Name # "_id"
    /\ c.Right.k = "SQLVal"

\* every conjunct of the side of an OR is a plain comparison
plainSide(expr) == \A i \in 1..Len(conjunctSeq(expr)) : plainComparison(conjunctSeq(expr)[i])

\* the element of an $or array holds the constraint of the conjunct c: under
\* the conjunct's field it has the value the conjunct is translated to, or a
\* document with the conjunct's operator and operand
holdsConjunct(element, c) ==
    LET e == parseWhereExpr(NewQuery, c).Filter[1]
    IN  \E j \in 1..Len(element.d) :
            /\ element.d[j].Key = e.Key
            /\ \/ element.d[j].Value = e.Value
               \/ /\ e.Value.t = "M" /\ element.d[j].Value.t = "M"
                  /\ \A k \in 1..Len(e.Value.d) :
                        \E l \in 1..Len(element.d[j].Value.d) :
                            element.d[j].Value.d[l] = e.Value.d[k]

holdsSide(element, expr) ==
    \A i \in 1..Len(conjunctSeq(expr)) : holdsConjunct(element, conjunctSeq(expr)[i])

\* C28: for WHERE a OR b each of the two elements of the $or array holds every
\* conjunct of its side, also when two conjuncts constrain the same field.
OrElementHoldsEveryConjunct ==
    (/\ Returned
     /\ stmt.k = "Select"
     /\ stmt.Where # NilWhere
     /\ stmt.Where.Expr.k = "OrExpr"
     /\ plainSide(stmt.Where.Expr.Left)
     /\ plainSide(stmt.Where.Expr.Right))
        => \E f \in 1..Len(q.Filter) :
              /\ q.Filter[f].Key = "$or"
              /\ Len(q.Filter[f].Value.a) = 2
              /\ holdsSide(q.Filter[f].Value.a[1], stmt.Where.Expr.Left)
              /\ holdsSide(q.Filter[f].Value.a[2], stmt.Where.Expr.Right)

\* _id = '<UUID>'
isIDComparison(c) ==
    /\ c.k = "ComparisonExpr" /\ c.Operator = "="
    /\ c.Left.k = "ColName" /\ c.Left.Name = "_id"
    /\ c.Right.k = "SQLVal" /\ c.Right.Type = "StrVal" /\ uuidRegex(c.Right.Val)

\* C29: a UUID literal compared with an ID field inside an OR branch is
\* coerced as the same comparison outside an OR, by the class of the
\* statement's collection: the entry of the $or element is the entry the
\* comparison gives as a WHERE clause of its own on that collection.
UUIDInOrCoercedAsOutside ==
    (/\ Returned
     /\ stmt.k = "Select"
     /\ stmt.Where # NilWhere
     /\ stmt.Where.Expr.k = "OrExpr"
     /\ isIDComparison(stmt.Where.Expr.Left))
        => \E f \in 1..Len(q.Filter) :
              /\ q.Filter[f].Key = "$or"
              /\ q.Filter[f].Value.a[1].d
                    = parseWhereExpr([NewQuery EXCEPT !.Collection = q.Collection],
                                     stmt.Where.Expr.Left).Filter

\* C30: the filter of col NOT BETWEEN x AND y differs from the filter of
\* col BETWEEN x AND y: no entry of it is the {$gte: x, $lte: y} entry of the
\* plain range.
NotBetweenDiffersFromBetween ==
    (/\ Returned
     /\ stmt.k = "Select"
     /\ stmt.Where # NilWhere
     /\ stmt.Where.Expr.k = "RangeCond"
     /\ stmt.Where.Expr.Operator = "not between")
        => LET between == [stmt.Where.Expr EXCEPT !.Operator = "between"]
           IN  /\ q.Filter # parseWhereExpr([NewQuery EXCEPT !.Collection = q.Collection],
                                            between).Filter
               /\ \A f \in 1..Len(q.Filter) :
                     q.Filter[f] # E(between.Left.Name,
                                    M2("$gte", parseSQLValue(between.From),
                                       "$lte", parseSQLValue(between.To)))

=============================================================================
